---- MODULE Spec2Model ----
(***************************************************************************)
(* Run controller of the Mastra gateway adapter.                           *)
(*                                                                         *)
(* Two entry points of agent-runner are modelled as state machines:        *)
(*   runMastraLlmCall / executeStream  (runner = "llm")                    *)
(*   runMastraAgent                    (runner = "agent")                  *)
(* One behaviour follows one run of one of them.  The engine               *)
(* (agent.stream, its fullStream), the caller's abort signal, the caller's *)
(* callbacks and the caller's use of the handle are the environment: they  *)
(* are nondeterministic inputs of the actions.                             *)
(*                                                                         *)
(* JavaScript values: a string is a sequence of characters, so that join   *)
(* and += are real concatenations; undefined is the atom Undefined.        *)
(***************************************************************************)
EXTENDS Integers, Sequences, FiniteSets, TLC

\* ------------------------------------------------------------------ bounds
MaxChunks == 2        \* chunks the engine stream delivers in one run
MaxQueueCalls == 2    \* calls of handle.queueMessage in one run
NumRuns == 2          \* concurrent runMastraAgent runs on one session file
MaxHistory == 2       \* messages in the session when compaction starts
MaxBlocks == 2        \* elements of a content-block array an executor returns
MaxTools == 3         \* tools in the list given to adaptToolsForMastra
MaxMessages == 2      \* entries in the list given to one toCoreMessages call
MaxCalls == 2         \* toCoreMessages calls that share _idCounter
ToolResultCeiling == 4  \* the configured ceiling on the size of one tool result
MaxDepth == 2         \* levels of objects and arrays around a leaf schema or value
MaxUnion == 3         \* members of one anyOf or oneOf list

\* ------------------------------------------------------------ JS values
Undefined == "undefined"
Null == "null"

\* text deltas the model can generate (strings as character sequences)
DeltaTexts == {<<"a">>, <<"b">>}
\* a text-delta chunk whose textDelta is not a string carries NoText
NoText == <<"#", "undefined">>
ToolNames == {"t"}
\* the text of the k-th queueMessage call (the caller's texts are distinct)
QueueText(k) == <<"q", ToString(k)>>
\* messages of params.messages / the session history, and the turn's prompt
HistoryMessages == <<[role |-> "user", content |-> <<"m">>]>>
Prompt == <<"p">>

\* abort reasons: the atom names the kind of value passed as reason.
\*   Undefined       no reason given
\*   "TimeoutError"  an Error object whose name is "TimeoutError"
\*   "AbortError"    the DOMException AbortController.abort() creates
Reasons == {Undefined, "TimeoutError"}
IsObject(r) == r \in {"TimeoutError", "AbortError"}
IsErrorInstance(r) == r \in {"TimeoutError", "AbortError"}
ReasonName(r) == IF IsObject(r) THEN r ELSE Undefined

\* chunks of output.fullStream
TextChunks == {[type |-> "text-delta", textDelta |-> d, toolName |-> Undefined, error |-> Undefined] :
                 d \in DeltaTexts \cup {NoText}}
ToolChunks == {[type |-> "tool-call", textDelta |-> NoText, toolName |-> n, error |-> Undefined] :
                 n \in ToolNames \cup {Undefined}}
              \cup {[type |-> "tool-result", textDelta |-> NoText, toolName |-> n, error |-> Undefined] :
                 n \in ToolNames}
ErrorChunks == {[type |-> "error", textDelta |-> NoText, toolName |-> Undefined, error |-> e] :
                 e \in {Undefined}}
\* a chunk that is null or not an object
NonObjectChunk == [type |-> "#null", textDelta |-> NoText, toolName |-> Undefined, error |-> Undefined]
Chunks == TextChunks \cup ToolChunks \cup ErrorChunks \cup {NonObjectChunk}

IsStringText(d) == d # NoText

RECURSIVE Join(_)
\* Array.prototype.join("") over strings: concatenation in order
Join(chunks) == IF chunks = <<>> THEN <<>> ELSE Head(chunks) \o Join(Tail(chunks))

\* ------------------------------------------------------------------- state
VARIABLES
  runner,               \* which entry point this behaviour runs
  pc,                   \* position of the run's async function
  streaming,            \* runMastraLlmCall: let streaming
  pendingMessages,      \* runMastraLlmCall: const pendingMessages
  ctrl,                 \* runMastraLlmCall: abortController.signal {aborted, reason}
  ext,                  \* params.abortSignal {present, aborted, reason}
  extListeners,         \* "abort" listeners the run has attached to params.abortSignal
  engineMessages,       \* message list handed to agent.stream
  delivered,            \* chunks pulled from fullStream so far, each with the token state
  events,               \* callbacks invoked so far, in order
  assistantTextChunks,  \* executeStream: assistantTextChunks
  finalText,            \* runMastraAgent: finalText
  toolCallsCollected,   \* runMastraAgent: toolCallsCollected
  toolResultsCollected, \* runMastraAgent: toolResultsCollected
  aborted,              \* let aborted
  timedOut,             \* let timedOut
  promptError,          \* executeStream: promptError
  result,               \* what the returned promise settled with
  sessionFile,          \* runMastraAgent: messages persisted in the session file
  offered,              \* history: every queueMessage call, with isStreaming() at the call
  abortCalls,           \* history: the first handle.abort call of the run
  streamingResets,      \* history: number of times streaming went true -> false
  writeLock,            \* holder of the session write lock (Free when nobody holds it)
  runs,                 \* concurrent runMastraAgent runs on one session file: position and text
  compaction,           \* mastraCompact: position, summary, first kept index, outcome
  fileLog,              \* history: every write to the session file, with the lock holder then
  toolsCall,            \* one adaptToolsForMastra call: its input tools and returned record
  execCall,             \* one execute call of an adapted tool: executor behaviour and outcome
  adapter,              \* message-adapter calls: input, engine messages, messages translated back
  idCounter,            \* message-adapter: let _idCounter
  issued,               \* history: toolCallId of every tool-call part toCoreMessages produced
  schemaCall,           \* one typeboxToZod call: its input, what it returned, one parse
  configCall,           \* one model-config call: its parameters and what it returned
  llmCall               \* one runMastraLlmCall call as its caller sees it: params.messages

vars == <<runner, pc, streaming, pendingMessages, ctrl, ext, extListeners, engineMessages,
          delivered, events, assistantTextChunks, finalText, toolCallsCollected,
          toolResultsCollected, aborted, timedOut, promptError, result, sessionFile,
          offered, abortCalls, streamingResets, writeLock, runs, compaction, fileLog,
          toolsCall, execCall, adapter, idCounter, issued, schemaCall, configCall, llmCall>>

Pending == [status |-> "pending", text |-> <<>>, aborted |-> FALSE, timedOut |-> FALSE,
            error |-> Null, toolCalls |-> <<>>, toolResults |-> <<>>]

\* the write lock when nobody holds it
Free == "free"

\* a run that has not been called: every variable of the run controller at rest
RunIdle ==
  /\ pc = "idle"
  /\ streaming = FALSE
  /\ pendingMessages = <<>>
  /\ ctrl = [aborted |-> FALSE, reason |-> Undefined]
  /\ extListeners = 0
  /\ engineMessages = <<>>
  /\ delivered = <<>>
  /\ events = <<>>
  /\ assistantTextChunks = <<>>
  /\ finalText = <<>>
  /\ toolCallsCollected = <<>>
  /\ toolResultsCollected = <<>>
  /\ aborted = FALSE
  /\ timedOut = FALSE
  /\ promptError = Null
  /\ result = Pending
  /\ offered = <<>>
  /\ abortCalls = <<>>
  /\ streamingResets = 0

\* no session-file activity besides the run's own
SessionIdle ==
  /\ writeLock = Free
  /\ runs = <<>>
  /\ compaction = [pc |-> "idle"]
  /\ fileLog = <<>>

\* the schema translator and the model-config adapter before any call
TranslatorsIdle ==
  /\ schemaCall = [phase |-> "idle"]
  /\ configCall = [phase |-> "idle"]
  /\ llmCall = [phase |-> "idle"]

\* the tool adapter and the message adapter before any call
AdaptersIdle ==
  /\ toolsCall = [phase |-> "idle"]
  /\ execCall = [phase |-> "idle"]
  /\ adapter = [phase |-> "idle"]
  /\ idCounter = 0
  /\ issued = <<>>
  /\ TranslatorsIdle

NoSignal == [present |-> FALSE, aborted |-> FALSE, reason |-> Undefined]

Init ==
  /\ runner \in {"llm", "agent"}
  /\ ext \in {NoSignal, [present |-> TRUE, aborted |-> FALSE, reason |-> Undefined]}
             \cup {[present |-> TRUE, aborted |-> TRUE, reason |-> r] : r \in {"AbortError"}}
  /\ sessionFile = HistoryMessages
  /\ RunIdle
  /\ SessionIdle
  /\ AdaptersIdle


\* --------------------------------------------------- standard-library pieces
\* AbortController.prototype.abort(reason): the first abort wins; a missing
\* reason becomes the default AbortError DOMException.
abortControllerAbort(c, reason) ==
  IF c.aborted THEN c
  ELSE [aborted |-> TRUE, reason |-> IF reason = Undefined THEN "AbortError" ELSE reason]

\* the caller aborts params.abortSignal
abortExternal(e, reason) ==
  IF e.aborted THEN e
  ELSE [present |-> TRUE, aborted |-> TRUE,
        reason |-> IF reason = Undefined THEN "AbortError" ELSE reason]

Event(cb, name, text) == [cb |-> cb, name |-> name, text |-> text]

\* ------------------------------------------------ runMastraLlmCall: handle
\* mutant: the streaming guard is dropped
queueMessageUnguarded(pending, isStreaming, text) == Append(pending, text)

\* handle.queueMessage(text): the pending queue after the call
queueMessage(pending, isStreaming, text) ==
  IF isStreaming THEN Append(pending, text) ELSE pending

\* handle.abort(_isTimeout, reason): the controller after the call
handleAbort(c, isTimeout, reason) == abortControllerAbort(c, reason)

\* mutant: the flag is reset after the await instead of in a finally block
finallyStreamingOnReturnOnly(status) == status # "resolved"

\* value of `streaming` after the finally block of the result function,
\* for a result function that exits with `status`
finallyStreaming(status) == FALSE

\* the result function exits: finally, then the promise settles (one job)
Settle(res) ==
  /\ streaming' = finallyStreaming(res.status)
  /\ streamingResets' = streamingResets + (IF streaming /\ ~streaming' THEN 1 ELSE 0)
  /\ result' = res
  /\ pc' = "done"

Rejected(err) == [Pending EXCEPT !.status = "rejected", !.error = err]

\* ------------------------------------------------ executeStream
\* the catch block: decides aborted / timedOut / promptError from the token
catchBlock(c, err, prevError) ==
  IF c.aborted
  THEN [aborted |-> TRUE,
        timedOut |-> (c.reason # Undefined /\ IsObject(c.reason)
                      /\ ReasonName(c.reason) = "TimeoutError"),
        promptError |-> prevError]
  ELSE [aborted |-> FALSE, timedOut |-> FALSE, promptError |-> err]

\* the statements after try/catch: join, onFinish, return
afterTry(chunks, ab, to, perr, onFinishThrows) ==
  [events |-> <<Event("onFinish", Undefined, Join(chunks))>>,
   result |-> IF onFinishThrows THEN Rejected("onFinishError")
              ELSE [Pending EXCEPT !.status = "resolved", !.text = Join(chunks),
                                   !.aborted = ab, !.timedOut = to, !.error = perr]]

\* mutant: the tool-result branch is never taken (a mistyped chunk type)
demuxLlmNoToolResult(c) ==
  IF c = NonObjectChunk THEN [events |-> <<>>, text |-> <<>>, error |-> Null]
  ELSE IF c.type = "text-delta" /\ IsStringText(c.textDelta)
  THEN [events |-> <<Event("onTextDelta", Undefined, c.textDelta)>>,
        text |-> <<c.textDelta>>, error |-> Null]
  ELSE IF c.type = "tool-call"
  THEN [events |-> <<Event("onToolCall",
                           IF c.toolName = Undefined THEN "unknown" ELSE c.toolName, <<>>)>>,
        text |-> <<>>, error |-> Null]
  ELSE IF c.type = "error"
  THEN [events |-> <<>>, text |-> <<>>,
        error |-> IF c.error = Undefined THEN "MastraStreamError" ELSE c.error]
  ELSE [events |-> <<>>, text |-> <<>>, error |-> Null]

\* demultiplexing of one chunk in executeStream's for-await body
demuxLlm(c) ==
  IF c = NonObjectChunk THEN [events |-> <<>>, text |-> <<>>, error |-> Null]
  ELSE IF c.type = "text-delta" /\ IsStringText(c.textDelta)
  THEN [events |-> <<Event("onTextDelta", Undefined, c.textDelta)>>,
        text |-> <<c.textDelta>>, error |-> Null]
  ELSE IF c.type = "tool-call"
  THEN [events |-> <<Event("onToolCall",
                           IF c.toolName = Undefined THEN "unknown" ELSE c.toolName, <<>>)>>,
        text |-> <<>>, error |-> Null]
  ELSE IF c.type = "tool-result"
  THEN [events |-> <<Event("onToolResult",
                           IF c.toolName = Undefined THEN "unknown" ELSE c.toolName, <<>>)>>,
        text |-> <<>>, error |-> Null]
  ELSE IF c.type = "error"
  THEN [events |-> <<>>, text |-> <<>>,
        error |-> IF c.error = Undefined THEN "MastraStreamError" ELSE c.error]
  ELSE [events |-> <<>>, text |-> <<>>, error |-> Null]

\* a step of one run touches neither the lock, nor other runs, nor the adapters' state
OutsideRunUnchanged == UNCHANGED <<writeLock, runs, compaction, fileLog, toolsCall, execCall,
                                   adapter, idCounter, issued, schemaCall, configCall, llmCall>>

AgentVarsUnchanged ==
  /\ UNCHANGED <<finalText, toolCallsCollected, toolResultsCollected, sessionFile>>
  /\ OutsideRunUnchanged

\* runMastraLlmCall up to its return, including the synchronous prefix of
\* executeStream (context guard, toCoreMessages) which may raise
LlmStart(prepareThrows) ==
  /\ runner = "llm" /\ pc = "idle"
  /\ IF ext.present
     THEN IF ext.aborted
          THEN ctrl' = abortControllerAbort(ctrl, ext.reason) /\ extListeners' = extListeners
          ELSE ctrl' = ctrl /\ extListeners' = extListeners + 1
     ELSE ctrl' = ctrl /\ extListeners' = extListeners
  /\ streaming' = TRUE
  /\ pc' = IF prepareThrows THEN "prepareThrown" ELSE "import"
  /\ UNCHANGED <<runner, pendingMessages, ext, engineMessages, delivered, events,
                 assistantTextChunks, aborted, timedOut, promptError, result, offered,
                 abortCalls, streamingResets>>
  /\ AgentVarsUnchanged

\* the rejection of executeStream's synchronous prefix reaches the result function
LlmPrepareRejects ==
  /\ runner = "llm" /\ pc = "prepareThrown"
  /\ Settle(Rejected("prepareError"))
  /\ UNCHANGED <<runner, pendingMessages, ctrl, ext, extListeners, engineMessages, delivered,
                 events, assistantTextChunks, aborted, timedOut, promptError, offered,
                 abortCalls>>
  /\ AgentVarsUnchanged

\* await import("@mastra/core/agent") fails: executeStream throws
LlmImportFail ==
  /\ runner = "llm" /\ pc = "import"
  /\ Settle(Rejected("notInstalled"))
  /\ UNCHANGED <<runner, pendingMessages, ctrl, ext, extListeners, engineMessages, delivered,
                 events, assistantTextChunks, aborted, timedOut, promptError, offered,
                 abortCalls>>
  /\ AgentVarsUnchanged

\* import succeeds; tools and model config are adapted (may raise, outside the
\* try block); the Agent is built and agent.stream(coreMessages, ...) is issued
LlmImportOk(setupThrows) ==
  /\ runner = "llm" /\ pc = "import"
  /\ IF setupThrows
     THEN /\ Settle(Rejected("setupError"))
          /\ UNCHANGED engineMessages
     ELSE /\ engineMessages' = HistoryMessages
          /\ pc' = "awaitStream"
          /\ UNCHANGED <<streaming, streamingResets, result>>
  /\ UNCHANGED <<runner, pendingMessages, ctrl, ext, extListeners, delivered, events,
                 assistantTextChunks, aborted, timedOut, promptError, offered, abortCalls>>
  /\ AgentVarsUnchanged

\* executeStream leaves its try/catch with the given locals and runs to the
\* return; the result function's finally runs and the promise settles
LlmFinish(chunks, ab, to, perr, evs, onFinishThrows) ==
  LET out == afterTry(chunks, ab, to, perr, onFinishThrows) IN
  /\ assistantTextChunks' = chunks
  /\ aborted' = ab /\ timedOut' = to /\ promptError' = perr
  /\ events' = evs \o out.events
  /\ Settle(out.result)

\* an exception reaches the catch block of executeStream
LlmCaught(chunks, err, perr, evs, onFinishThrows) ==
  LET cb == catchBlock(ctrl, err, perr) IN
  LlmFinish(chunks, cb.aborted, cb.timedOut, cb.promptError, evs, onFinishThrows)

\* await agent.stream(...) resolves with the output
LlmStreamCallOk ==
  /\ runner = "llm" /\ pc = "awaitStream"
  /\ pc' = "loop"
  /\ UNCHANGED <<runner, streaming, pendingMessages, ctrl, ext, extListeners, engineMessages,
                 delivered, events, assistantTextChunks, aborted, timedOut, promptError,
                 result, offered, abortCalls, streamingResets>>
  /\ AgentVarsUnchanged

\* await agent.stream(...) rejects (engine error, or the token was aborted)
LlmStreamCallThrow(onFinishThrows) ==
  /\ runner = "llm" /\ pc = "awaitStream"
  /\ LlmCaught(assistantTextChunks, "streamError", promptError, events, onFinishThrows)
  /\ UNCHANGED <<runner, pendingMessages, ctrl, ext, extListeners, engineMessages, delivered,
                 offered, abortCalls>>
  /\ AgentVarsUnchanged

\* one iteration of the for-await loop: the stream delivers chunk c; the
\* callback invoked for it (if any) may raise
LlmNextChunk(c, cbThrows, onFinishThrows) ==
  /\ runner = "llm" /\ pc = "loop"
  /\ Len(delivered) < MaxChunks
  /\ LET d == demuxLlm(c)
         chunks == assistantTextChunks \o d.text
         perr == IF d.error # Null THEN d.error ELSE promptError
     IN
     /\ cbThrows => d.events # <<>>
     /\ delivered' = Append(delivered, [chunk |-> c, afterAbort |-> ctrl.aborted])
     /\ IF cbThrows
        THEN LlmCaught(chunks, "callbackError", perr, events \o d.events, onFinishThrows)
        ELSE /\ ~onFinishThrows
             /\ assistantTextChunks' = chunks
             /\ promptError' = perr
             /\ events' = events \o d.events
             /\ UNCHANGED <<pc, streaming, streamingResets, result, aborted, timedOut>>
  /\ UNCHANGED <<runner, pendingMessages, ctrl, ext, extListeners, engineMessages, offered,
                 abortCalls>>
  /\ AgentVarsUnchanged

\* the stream ends normally: the loop exits without an exception
LlmStreamEnd(onFinishThrows) ==
  /\ runner = "llm" /\ pc = "loop"
  /\ LlmFinish(assistantTextChunks, aborted, timedOut, promptError, events, onFinishThrows)
  /\ UNCHANGED <<runner, pendingMessages, ctrl, ext, extListeners, engineMessages, delivered,
                 offered, abortCalls>>
  /\ AgentVarsUnchanged

\* the stream iterator rejects (engine error, or the engine honours the abort)
LlmStreamThrow(onFinishThrows) ==
  /\ runner = "llm" /\ pc = "loop"
  /\ LlmCaught(assistantTextChunks, "streamError", promptError, events, onFinishThrows)
  /\ UNCHANGED <<runner, pendingMessages, ctrl, ext, extListeners, engineMessages, delivered,
                 offered, abortCalls>>
  /\ AgentVarsUnchanged

\* the caller calls handle.queueMessage(text) at any time after the handle is returned
QueueMessage(text) ==
  /\ runner = "llm" /\ pc # "idle"
  /\ Len(offered) < MaxQueueCalls
  /\ text = QueueText(Len(offered) + 1)
  /\ pendingMessages' = queueMessage(pendingMessages, streaming, text)
  /\ offered' = Append(offered, [text |-> text, streaming |-> streaming])
  /\ UNCHANGED <<runner, pc, streaming, ctrl, ext, extListeners, engineMessages, delivered,
                 events, assistantTextChunks, aborted, timedOut, promptError, result,
                 abortCalls, streamingResets>>
  /\ AgentVarsUnchanged

\* the caller calls handle.abort(isTimeout, reason)
HandleAbort(isTimeout, reason) ==
  /\ runner = "llm" /\ pc # "idle"
  /\ ctrl' = handleAbort(ctrl, isTimeout, reason)
  /\ abortCalls' = IF abortCalls = <<>>
                   THEN <<[isTimeout |-> isTimeout, reason |-> reason,
                           streaming |-> streaming]>>
                   ELSE abortCalls
  /\ UNCHANGED <<runner, pc, streaming, pendingMessages, ext, extListeners, engineMessages,
                 delivered, events, assistantTextChunks, aborted, timedOut, promptError,
                 result, offered, streamingResets>>
  /\ AgentVarsUnchanged

\* the steps of one runMastraLlmCall run
LlmRun ==
  \/ \E t \in BOOLEAN : LlmStart(t)
  \/ LlmPrepareRejects
  \/ LlmImportFail
  \/ \E t \in BOOLEAN : LlmImportOk(t)
  \/ LlmStreamCallOk
  \/ \E f \in BOOLEAN : LlmStreamCallThrow(f)
  \/ \E c \in Chunks, t \in BOOLEAN, f \in BOOLEAN : LlmNextChunk(c, t, f)
  \/ \E f \in BOOLEAN : LlmStreamEnd(f)
  \/ \E f \in BOOLEAN : LlmStreamThrow(f)

\* ------------------------------------------------ runMastraAgent
LlmVarsUnchanged ==
  /\ UNCHANGED <<streaming, pendingMessages, ctrl, assistantTextChunks,
                 promptError, offered, abortCalls, streamingResets>>
  /\ OutsideRunUnchanged

\* mutant: the listener records a timeout instead of an abort, not with it
onAbortTimeoutInsteadOfAbort(reason) ==
  [aborted |-> ~(IsErrorInstance(reason) /\ ReasonName(reason) = "TimeoutError"),
   timedOut |-> (IsErrorInstance(reason) /\ ReasonName(reason) = "TimeoutError")]

\* the onAbort listener of runMastraAgent
onAbort(reason) ==
  [aborted |-> TRUE,
   timedOut |-> (IsErrorInstance(reason) /\ ReasonName(reason) = "TimeoutError")]

\* demultiplexing of one chunk in runMastraAgent's for-await body
demuxAgent(c) ==
  IF c.type = "text-delta" /\ IsStringText(c.textDelta)
  THEN [events |-> <<Event("onTextDelta", Undefined, c.textDelta)>>, text |-> c.textDelta,
        toolCalls |-> <<>>, toolResults |-> <<>>]
  ELSE IF c.type = "tool-call" /\ c.toolName # Undefined
  THEN [events |-> <<Event("onToolCall", c.toolName, <<>>)>>, text |-> <<>>,
        toolCalls |-> <<c.toolName>>, toolResults |-> <<>>]
  ELSE IF c.type = "tool-result" /\ c.toolName # Undefined
  THEN [events |-> <<Event("onToolResult", c.toolName, <<>>)>>, text |-> <<>>,
        toolCalls |-> <<>>, toolResults |-> <<c.toolName>>]
  ELSE [events |-> <<>>, text |-> <<>>, toolCalls |-> <<>>, toolResults |-> <<>>]

\* mutant: a message whose append failed is appended again
appendMastraMessagesRetrying(file, newMessages, openOk, okSet) ==
  IF ~openOk THEN file
  ELSE file \o SelectSeq(newMessages, LAMBDA m : m.role \in okSet)
            \o SelectSeq(newMessages, LAMBDA m : m.role \notin okSet)

\* appendMastraMessages: every failure is logged and swallowed, message by message
appendMastraMessages(file, newMessages, openOk, okSet) ==
  IF ~openOk THEN file
  ELSE file \o SelectSeq(newMessages, LAMBDA m : m.role \in okSet)

\* the finally block of runMastraAgent
agentFinally(listeners) == 0

\* the catch block of runMastraAgent and its return value
AgentCatch(err) ==
  /\ result' = [Pending EXCEPT !.status = "resolved", !.text = <<>>, !.aborted = aborted,
                               !.timedOut = timedOut, !.error = err]
  /\ extListeners' = agentFinally(extListeners)
  /\ pc' = "done"

\* runMastraAgent up to its first await (or its early return)
AgentStart ==
  /\ runner = "agent" /\ pc = "idle"
  /\ IF ext.present /\ ext.aborted
     THEN /\ result' = [Pending EXCEPT !.status = "resolved", !.aborted = TRUE]
          /\ pc' = "done"
          /\ UNCHANGED extListeners
     ELSE /\ extListeners' = IF ext.present THEN extListeners + 1 ELSE extListeners
          /\ pc' = "config"
          /\ UNCHANGED result
  /\ UNCHANGED <<runner, ext, engineMessages, delivered, events, finalText, toolCallsCollected,
                 toolResultsCollected, aborted, timedOut, sessionFile>>
  /\ LlmVarsUnchanged

\* await toMastraModelConfig(...) settles
AgentConfigDone(throws) ==
  /\ runner = "agent" /\ pc = "config"
  /\ IF throws THEN AgentCatch("configError")
     ELSE pc' = "read" /\ UNCHANGED <<result, extListeners>>
  /\ UNCHANGED <<runner, ext, engineMessages, delivered, events, finalText, toolCallsCollected,
                 toolResultsCollected, aborted, timedOut, sessionFile>>
  /\ LlmVarsUnchanged

\* await readSessionMessages(...) resolves; messages, tools and the Agent are
\* built (may raise) and agent.stream(allMessages, ...) is issued
AgentReadDone(setupThrows) ==
  /\ runner = "agent" /\ pc = "read"
  /\ IF setupThrows
     THEN AgentCatch("setupError") /\ UNCHANGED engineMessages
     ELSE /\ engineMessages' = sessionFile \o <<[role |-> "user", content |-> Prompt]>>
          /\ pc' = "awaitStream"
          /\ UNCHANGED <<result, extListeners>>
  /\ UNCHANGED <<runner, ext, delivered, events, finalText, toolCallsCollected,
                 toolResultsCollected, aborted, timedOut, sessionFile>>
  /\ LlmVarsUnchanged

\* await agent.stream(...) settles
AgentStreamCallDone(throws) ==
  /\ runner = "agent" /\ pc = "awaitStream"
  /\ IF throws THEN AgentCatch("streamError")
     ELSE pc' = "loop" /\ UNCHANGED <<result, extListeners>>
  /\ UNCHANGED <<runner, ext, engineMessages, delivered, events, finalText, toolCallsCollected,
                 toolResultsCollected, aborted, timedOut, sessionFile>>
  /\ LlmVarsUnchanged

\* one iteration of the for-await loop: the stream delivers chunk c
AgentNextChunk(c, cbThrows) ==
  /\ runner = "agent" /\ pc = "loop"
  /\ Len(delivered) < MaxChunks
  /\ delivered' = Append(delivered, [chunk |-> c, afterAbort |-> aborted])
  /\ IF aborted
     THEN \* break
          /\ ~cbThrows
          /\ pc' = "append"
          /\ UNCHANGED <<events, finalText, toolCallsCollected, toolResultsCollected, result,
                         extListeners>>
     ELSE IF c = NonObjectChunk
     THEN \* reading c.type of null raises a TypeError
          /\ ~cbThrows
          /\ AgentCatch("typeError")
          /\ UNCHANGED <<events, finalText, toolCallsCollected, toolResultsCollected>>
     ELSE LET d == demuxAgent(c) IN
          /\ cbThrows => d.events # <<>>
          /\ finalText' = finalText \o d.text
          /\ toolCallsCollected' = toolCallsCollected \o d.toolCalls
          /\ toolResultsCollected' = toolResultsCollected \o d.toolResults
          /\ events' = events \o d.events
          /\ IF cbThrows THEN AgentCatch("callbackError")
             ELSE UNCHANGED <<pc, result, extListeners>>
  /\ UNCHANGED <<runner, ext, engineMessages, aborted, timedOut, sessionFile>>
  /\ LlmVarsUnchanged

\* the stream settles: it ends normally, or its iterator rejects
AgentStreamEnd(throws) ==
  /\ runner = "agent" /\ pc = "loop"
  /\ IF throws THEN AgentCatch("streamError")
     ELSE pc' = "append" /\ UNCHANGED <<result, extListeners>>
  /\ UNCHANGED <<runner, ext, engineMessages, delivered, events, finalText, toolCallsCollected,
                 toolResultsCollected, aborted, timedOut, sessionFile>>
  /\ LlmVarsUnchanged

\* await appendMastraMessages(...) resolves; the result is returned
AgentAppendDone(openOk, okSet) ==
  /\ runner = "agent" /\ pc = "append"
  /\ ~openOk => okSet = {}
  /\ sessionFile' = appendMastraMessages(sessionFile,
                       <<[role |-> "user", content |-> Prompt],
                         [role |-> "assistant", content |-> finalText]>>, openOk, okSet)
  /\ result' = [Pending EXCEPT !.status = "resolved", !.text = finalText, !.aborted = aborted,
                               !.timedOut = timedOut, !.toolCalls = toolCallsCollected,
                               !.toolResults = toolResultsCollected]
  /\ extListeners' = agentFinally(extListeners)
  /\ pc' = "done"
  /\ UNCHANGED <<runner, ext, engineMessages, delivered, events, finalText, toolCallsCollected,
                 toolResultsCollected, aborted, timedOut>>
  /\ LlmVarsUnchanged

AgentNext ==
  \/ AgentStart
  \/ \E t \in BOOLEAN : AgentConfigDone(t)
  \/ \E t \in BOOLEAN : AgentReadDone(t)
  \/ \E t \in BOOLEAN : AgentStreamCallDone(t)
  \/ \E c \in Chunks, t \in BOOLEAN : AgentNextChunk(c, t)
  \/ \E t \in BOOLEAN : AgentStreamEnd(t)
  \/ \E o \in BOOLEAN, ok \in SUBSET {"user", "assistant"} : AgentAppendDone(o, ok)

\* ------------------------------------------------ the caller's abort signal
\* the caller aborts params.abortSignal: the listeners the run attached fire
\* once and are detached by { once: true }
ExtAbort(reason) ==
  /\ ext.present /\ ~ext.aborted
  /\ ext' = abortExternal(ext, reason)
  /\ IF extListeners > 0
     THEN /\ extListeners' = 0
          /\ IF runner = "llm"
             THEN ctrl' = abortControllerAbort(ctrl, ext'.reason)
                  /\ UNCHANGED <<aborted, timedOut>>
             ELSE /\ aborted' = onAbort(ext'.reason).aborted
                  /\ timedOut' = onAbort(ext'.reason).timedOut
                  /\ UNCHANGED ctrl
     ELSE UNCHANGED <<extListeners, ctrl, aborted, timedOut>>
  /\ UNCHANGED <<runner, pc, streaming, pendingMessages, engineMessages, delivered, events,
                 assistantTextChunks, finalText, toolCallsCollected, toolResultsCollected,
                 promptError, result, sessionFile, offered, abortCalls, streamingResets>>
  /\ OutsideRunUnchanged

\* ------------------------------------------------ specifications
\* Spec: one run of either entry point, with cancellation through the handle
\* and through the caller's signal at any moment.
Next ==
  \/ LlmRun
  \/ \E t \in BOOLEAN, r \in Reasons : HandleAbort(t, r)
  \/ AgentNext
  \/ \E r \in Reasons : ExtAbort(r)

Spec == Init /\ [][Next]_vars

\* SpecQueue: one runMastraLlmCall run whose caller calls queueMessage at any
\* moment after the handle is returned.  The caller's signal may already be
\* aborted at entry; later cancellation only changes the token, which
\* queueMessage never reads.
InitQueue == Init /\ runner = "llm"

NextQueue ==
  \/ LlmRun
  \/ \E k \in 1..MaxQueueCalls : QueueMessage(QueueText(k))

SpecQueue == InitQueue /\ [][NextQueue]_vars

\* ------------------------------------------------ concurrent runs on one session file
\* SpecAppend: NumRuns runMastraAgent calls in one process share a session
\* file.  Each run is followed through its awaits: the history read, the
\* stream, and the append at the end of a successful run.
RunIds == {"run" \o ToString(n) : n \in 1..NumRuns}

\* the prompt of run r
RunPrompt(r) == <<"p", r>>

\* the messages a run hands to appendMastraMessages
newMessagesOf(r, text) ==
  <<[role |-> "user", content |-> RunPrompt(r)], [role |-> "assistant", content |-> text]>>

\* one line of the write history per message that reached the file
LogAppends(r, before, after, lock) ==
  [i \in 1..(Len(after) - Len(before)) |->
     [op |-> "append", by |-> r, role |-> after[Len(before) + i].role, lock |-> lock]]

RunVarsUnchanged ==
  UNCHANGED <<runner, pc, streaming, pendingMessages, ctrl, ext, extListeners, engineMessages,
              delivered, events, assistantTextChunks, finalText, toolCallsCollected,
              toolResultsCollected, aborted, timedOut, promptError, result, offered,
              abortCalls, streamingResets>>

AdaptersUnchanged ==
  UNCHANGED <<toolsCall, execCall, adapter, idCounter, issued, schemaCall, configCall, llmCall>>

\* runMastraAgent is called and reaches await readSessionMessages(sessionFile)
RunCalled(r) ==
  /\ runs[r].pc = "idle"
  /\ runs' = [runs EXCEPT ![r].pc = "read"]
  /\ UNCHANGED <<sessionFile, writeLock, compaction, fileLog>>
  /\ RunVarsUnchanged /\ AdaptersUnchanged

\* the history is read (readSessionMessages never throws) and the stream starts
RunReadDone(r) ==
  /\ runs[r].pc = "read"
  /\ runs' = [runs EXCEPT ![r].pc = "stream", ![r].seen = Len(sessionFile)]
  /\ UNCHANGED <<sessionFile, writeLock, compaction, fileLog>>
  /\ RunVarsUnchanged /\ AdaptersUnchanged

\* the stream ends: with an error the catch block returns without appending,
\* otherwise appendMastraMessages is called and suspends at its await import
RunStreamDone(r, text, throws) ==
  /\ runs[r].pc = "stream"
  /\ runs' = [runs EXCEPT ![r].pc = IF throws THEN "done" ELSE "append", ![r].text = text]
  /\ UNCHANGED <<sessionFile, writeLock, compaction, fileLog>>
  /\ RunVarsUnchanged /\ AdaptersUnchanged

\* appendMastraMessages resumes: SessionManager.open and the synchronous
\* loop of sm.appendMessage run in one job; nothing in it takes the lock
RunAppendDone(r, openOk, okSet) ==
  /\ runs[r].pc = "append"
  /\ ~openOk => okSet = {}
  /\ sessionFile' = appendMastraMessages(sessionFile, newMessagesOf(r, runs[r].text),
                                         openOk, okSet)
  /\ fileLog' = fileLog \o LogAppends(r, sessionFile, sessionFile', writeLock)
  /\ runs' = [runs EXCEPT ![r].pc = "done"]
  /\ UNCHANGED <<writeLock, compaction>>
  /\ RunVarsUnchanged /\ AdaptersUnchanged

InitAppend ==
  /\ runner = "agent" /\ ext = NoSignal /\ RunIdle
  /\ sessionFile = HistoryMessages
  /\ writeLock = Free
  /\ runs = [r \in RunIds |-> [pc |-> "idle", seen |-> 0, text |-> <<>>]]
  /\ compaction = [pc |-> "idle"]
  /\ fileLog = <<>>
  /\ AdaptersIdle

NextAppend ==
  \E r \in RunIds :
    \/ RunCalled(r)
    \/ RunReadDone(r)
    \/ \E text \in DeltaTexts \cup {<<>>}, t \in BOOLEAN : RunStreamDone(r, text, t)
    \/ \E o \in BOOLEAN, ok \in SUBSET {"user", "assistant"} : RunAppendDone(r, o, ok)

SpecAppend == InitAppend /\ [][NextAppend]_vars

\* ------------------------------------------------ JavaScript values
\* A value whose type the code tests at run time is a record with one field
\* named after its type; an object is a record of its own fields.  Optional
\* string fields hold Undefined when absent.
Str(s) == [str |-> s]
Arr(a) == [arr |-> a]
Num(n) == [num |-> n]
UndefinedValue == [undef |-> TRUE]
NullValue == [nil |-> TRUE]

IsString(v) == "str" \in DOMAIN v
IsArray(v) == "arr" \in DOMAIN v
IsNullish(v) == "undef" \in DOMAIN v \/ "nil" \in DOMAIN v
\* typeof v === "object" && v !== null && !Array.isArray(v)
IsPlainObject(v) == DOMAIN v \cap {"str", "arr", "num", "undef", "nil"} = {}

\* property access o.f
Get(o, f) == IF f \in DOMAIN o THEN o[f] ELSE Undefined
\* a ?? b on optional string fields
Coalesce(a, b) == IF a \in {Undefined, Null} THEN b ELSE a
\* typeof o.f === "string"
HasString(o, f) == Get(o, f) \notin {Undefined, Null}

\* String(v)
StringOf(v) ==
  IF IsString(v) THEN v.str
  ELSE IF "num" \in DOMAIN v THEN ToString(v.num)
  ELSE IF "undef" \in DOMAIN v THEN "undefined"
  ELSE IF "nil" \in DOMAIN v THEN "null"
  ELSE "[object Object]"

RECURSIVE JoinWith(_, _)
\* Array.prototype.join(sep) over strings
JoinWith(strings, sep) ==
  IF strings = <<>> THEN ""
  ELSE IF Len(strings) = 1 THEN strings[1]
  ELSE strings[1] \o sep \o JoinWith(Tail(strings), sep)

\* the order in which JSON.stringify meets the properties of the blocks modelled
JsonFields == <<"type", "text", "thinking", "data", "mimeType", "toolCallId", "id",
                "toolUseId", "name", "toolName", "input", "args", "result", "content",
                "self">>

\* a property holding a reference back to its own object
Cyclic == "#cyclic"
\* JSON.stringify throws a TypeError on a cyclic structure
JsonThrows(o) == \E f \in DOMAIN o : o[f] = Cyclic

\* JSON.stringify(o) of an object of string properties without cycles
JsonStringify(o) ==
  LET present == SelectSeq(JsonFields, LAMBDA f : f \in DOMAIN o /\ o[f] # Undefined)
      pair(f) == "\"" \o f \o "\":\"" \o o[f] \o "\""
  IN "{" \o JoinWith([i \in 1..Len(present) |-> pair(present[i])], ",") \o "}"

\* ------------------------------------------------ message adapter
\* values Date.now() returns during the calls modelled
Clock == {"1700000000000", "1700000000001"}

\* m.content, undefined when the message has no content property
ContentOf(m) == IF "content" \in DOMAIN m THEN m.content ELSE UndefinedValue
\* String(content ?? "")
StringOrEmpty(v) == IF IsNullish(v) THEN "" ELSE StringOf(v)

\* generateId with ++_idCounter dropped: the counter is read but not advanced
generateIdNoIncrement(counter, now) ==
  [id |-> "mastra-" \o now \o "-" \o ToString(counter), counter |-> counter]

\* generateId(): `mastra-${Date.now()}-${++_idCounter}`; the new counter is returned with the id
generateId(counter, now) ==
  [id |-> "mastra-" \o now \o "-" \o ToString(counter + 1), counter |-> counter + 1]

\* a ?? b ?? generateId(): the id is generated only when both are nullish
IdOrGenerate(a, b, counter, now) ==
  IF Coalesce(a, b) \in {Undefined, Null} THEN generateId(counter, now)
  ELSE [id |-> Coalesce(a, b), counter |-> counter]

\* the callback of m.content.map in convertUserMessage
userPart(block) ==
  IF block.type = "text" /\ HasString(block, "text")
  THEN [type |-> "text", text |-> block.text]
  ELSE IF block.type = "image" /\ HasString(block, "data")
  THEN [type |-> "image", image |-> block.data,
        mimeType |-> Coalesce(Get(block, "mimeType"), "image/jpeg")]
  ELSE [type |-> "text", text |-> JsonStringify(block)]

convertUserMessage(m) ==
  LET content == ContentOf(m) IN
  IF IsString(content) THEN [role |-> "user", content |-> content]
  ELSE IF IsArray(content)
  THEN [role |-> "user",
        content |-> Arr([i \in 1..Len(content.arr) |-> userPart(content.arr[i])])]
  ELSE [role |-> "user", content |-> Str(StringOrEmpty(content))]

RECURSIVE assistantParts(_, _, _)
\* the for loop of convertAssistantMessage over the content blocks
assistantParts(blocks, counter, now) ==
  IF blocks = <<>> THEN [parts |-> <<>>, counter |-> counter]
  ELSE
    LET block == Head(blocks) IN
    IF block.type = "text" /\ HasString(block, "text")
    THEN LET rest == assistantParts(Tail(blocks), counter, now)
         IN [parts |-> <<[type |-> "text", text |-> block.text]>> \o rest.parts,
             counter |-> rest.counter]
    ELSE IF block.type \in {"toolCall", "tool_use"}
    THEN LET g == IdOrGenerate(Get(block, "toolCallId"), Get(block, "id"), counter, now)
             rest == assistantParts(Tail(blocks), g.counter, now)
         IN [parts |-> <<[type |-> "tool-call", toolCallId |-> g.id,
                          toolName |-> Coalesce(Get(block, "name"),
                                                Coalesce(Get(block, "toolName"), "unknown")),
                          args |-> Coalesce(Get(block, "input"),
                                            Coalesce(Get(block, "args"), "{}"))]>>
                        \o rest.parts,
             counter |-> rest.counter]
    ELSE IF HasString(block, "text")
    THEN LET rest == assistantParts(Tail(blocks), counter, now)
         IN [parts |-> <<[type |-> "text", text |-> block.text]>> \o rest.parts,
             counter |-> rest.counter]
    ELSE assistantParts(Tail(blocks), counter, now)

convertAssistantMessage(m, counter, now) ==
  LET content == ContentOf(m) IN
  IF IsString(content)
  THEN [msg |-> [role |-> "assistant", content |-> content], counter |-> counter]
  ELSE IF IsArray(content)
  THEN LET r == assistantParts(content.arr, counter, now)
       IN [msg |-> [role |-> "assistant",
                    content |-> IF r.parts = <<>> THEN Str("") ELSE Arr(r.parts)],
           counter |-> r.counter]
  ELSE [msg |-> [role |-> "assistant", content |-> Str(StringOrEmpty(content))],
        counter |-> counter]

RECURSIVE toolParts(_, _, _)
\* m.content.map in convertToolMessage, left to right
toolParts(blocks, counter, now) ==
  IF blocks = <<>> THEN [parts |-> <<>>, counter |-> counter]
  ELSE
    LET block == Head(blocks)
        g == IdOrGenerate(Get(block, "toolCallId"), Get(block, "toolUseId"), counter, now)
        rest == toolParts(Tail(blocks), g.counter, now)
    IN [parts |-> <<[type |-> "tool-result", toolCallId |-> g.id,
                     toolName |-> Coalesce(Get(block, "toolName"), "unknown"),
                     result |-> Coalesce(Get(block, "result"),
                                  Coalesce(Get(block, "content"),
                                    Coalesce(Get(block, "text"), "")))]>> \o rest.parts,
        counter |-> rest.counter]

convertToolMessage(m, counter, now) ==
  LET content == ContentOf(m) IN
  IF ~IsArray(content)
  THEN LET g == generateId(counter, now)
       IN [msg |-> [role |-> "tool",
                    content |-> Arr(<<[type |-> "tool-result", toolCallId |-> g.id,
                                       toolName |-> "unknown",
                                       result |-> StringOrEmpty(content)]>>)],
           counter |-> g.counter]
  ELSE LET r == toolParts(content.arr, counter, now)
       IN [msg |-> [role |-> "tool", content |-> Arr(r.parts)], counter |-> r.counter]

\* the body of the for loop of toCoreMessages that also pushes system messages
convertMessagePushesSystem(msg, counter, now) ==
  IF ~(IsPlainObject(msg) \/ IsArray(msg)) THEN [out |-> <<>>, counter |-> counter]
  ELSE IF Get(msg, "role") \in {"user", "system"}
  THEN [out |-> <<[convertUserMessage(msg) EXCEPT !.role = msg.role]>>, counter |-> counter]
  ELSE IF Get(msg, "role") = "assistant"
  THEN LET c == convertAssistantMessage(msg, counter, now)
       IN [out |-> <<c.msg>>, counter |-> c.counter]
  ELSE IF Get(msg, "role") = "tool"
  THEN LET c == convertToolMessage(msg, counter, now)
       IN [out |-> <<c.msg>>, counter |-> c.counter]
  ELSE [out |-> <<>>, counter |-> counter]

\* the body of the for loop of toCoreMessages: what one entry pushes onto result
convertMessage(msg, counter, now) ==
  IF ~(IsPlainObject(msg) \/ IsArray(msg)) THEN [out |-> <<>>, counter |-> counter]
  ELSE IF Get(msg, "role") = "user"
  THEN [out |-> <<convertUserMessage(msg)>>, counter |-> counter]
  ELSE IF Get(msg, "role") = "assistant"
  THEN LET c == convertAssistantMessage(msg, counter, now)
       IN [out |-> <<c.msg>>, counter |-> c.counter]
  ELSE IF Get(msg, "role") = "tool"
  THEN LET c == convertToolMessage(msg, counter, now)
       IN [out |-> <<c.msg>>, counter |-> c.counter]
  ELSE [out |-> <<>>, counter |-> counter]

RECURSIVE toCoreMessages(_, _, _)
\* toCoreMessages(messages), with _idCounter before the call and the value
\* Date.now() returns during it; yields the engine messages and _idCounter after
toCoreMessages(messages, counter, now) ==
  IF messages = <<>> THEN [out |-> <<>>, counter |-> counter]
  ELSE LET first == convertMessage(Head(messages), counter, now)
           rest == toCoreMessages(Tail(messages), first.counter, now)
       IN [out |-> first.out \o rest.out, counter |-> rest.counter]

\* the callback of content.map in normalizeContentToString
partText(part) ==
  IF IsString(part) THEN part.str
  ELSE IF IsPlainObject(part) /\ "text" \in DOMAIN part THEN part.text
  ELSE ""

normalizeContentToString(content) ==
  IF IsString(content) THEN content.str
  ELSE IF IsArray(content)
  THEN JoinWith([i \in 1..Len(content.arr) |-> partText(content.arr[i])], "")
  ELSE ""

\* fromCoreMessage(msg); NullValue stands for the null it returns for other roles
fromCoreMessage(msg) ==
  LET content == ContentOf(msg) IN
  IF Get(msg, "role") = "user"
  THEN [role |-> "user",
        content |-> IF IsString(content) THEN content
                    ELSE Str(normalizeContentToString(content))]
  ELSE IF Get(msg, "role") = "assistant"
  THEN [role |-> "assistant",
        content |-> IF IsString(content) \/ IsArray(content) THEN content
                    ELSE Str(StringOrEmpty(content))]
  ELSE IF Get(msg, "role") = "tool"
  THEN [role |-> "tool", content |-> IF IsArray(content) THEN content ELSE Arr(<<>>)]
  ELSE NullValue

\* ------------------------------------------------ compaction
\* SpecCompact: one mastraCompact call on a session whose write lock may be
\* held by another writer when the call starts.
SessionMessagePool ==
  {[role |-> "user", content |-> Str("m")], [role |-> "assistant", content |-> Str("n")],
   [role |-> "system", content |-> Str("s")]}

RECURSIVE SeqsUpTo(_, _)
\* every sequence over pool of length at most n
SeqsUpTo(pool, n) ==
  IF n = 0 THEN {<<>>}
  ELSE LET shorter == SeqsUpTo(pool, n - 1)
       IN shorter \cup {Append(q, x) : q \in {t \in shorter : Len(t) = n - 1}, x \in pool}

\* how the summary model call ends: a result with or without text, or a
\* rejection (provider error, abort, timeout)
GenerateOutcomes ==
  {[ok |-> TRUE, text |-> t, error |-> Null] : t \in {"S", Undefined}}
    \cup {[ok |-> FALSE, text |-> Undefined, error |-> e] :
            e \in {"Error", "AbortError", "TimeoutError"}}

\* mastraGenerateSummary with a catch that returns "" instead of rethrowing
mastraGenerateSummarySwallows(coreMessages, outcome) ==
  IF coreMessages = <<>> \/ ~outcome.ok THEN [ok |-> TRUE, text |-> "", error |-> Null]
  ELSE [ok |-> TRUE, text |-> Coalesce(outcome.text, ""), error |-> Null]

\* mastraGenerateSummary after toCoreMessages: no model call for an empty
\* list; result.text ?? "" on success; the catch logs and rethrows
mastraGenerateSummary(coreMessages, outcome) ==
  IF coreMessages = <<>> THEN [ok |-> TRUE, text |-> "", error |-> Null]
  ELSE IF outcome.ok THEN [ok |-> TRUE, text |-> Coalesce(outcome.text, ""), error |-> Null]
  ELSE [ok |-> FALSE, text |-> "", error |-> outcome.error]

\* [summaryMessage, ...messages.slice(firstKeptMessageIndex)]
compactedMessages(messages, summaryText, firstKept) ==
  <<[role |-> "user", content |-> Str("[Conversation summary]\n" \o summaryText)]>>
    \o SubSeq(messages, firstKept + 1, Len(messages))

RunsUnchanged == UNCHANGED <<runs, toolsCall, execCall, adapter, issued, schemaCall, configCall, llmCall>>

\* mastraCompact is called with the session's messages and awaits the summary
CompactCalled ==
  /\ compaction.pc = "idle"
  /\ compaction' = [compaction EXCEPT !.pc = "summary", !.messages = sessionFile]
  /\ UNCHANGED <<sessionFile, writeLock, fileLog, idCounter>>
  /\ RunVarsUnchanged /\ RunsUnchanged

\* the summary call settles; on success the kept suffix is resolved and
\* withLock is awaited, on failure the rejection leaves mastraCompact
CompactSummaryDone(outcome, firstKept, now) ==
  /\ compaction.pc = "summary"
  /\ firstKept \in 0..Len(compaction.messages)
  /\ LET core == toCoreMessages(compaction.messages, idCounter, now)
         summary == mastraGenerateSummary(core.out, outcome)
     IN /\ idCounter' = core.counter
        /\ compaction' =
             IF summary.ok
             THEN [compaction EXCEPT !.pc = "locking", !.called = (core.out # <<>>),
                     !.outcome = outcome,
                     !.compacted = compactedMessages(compaction.messages, summary.text,
                                                     firstKept)]
             ELSE [compaction EXCEPT !.pc = "failed", !.called = TRUE, !.outcome = outcome,
                     !.error = summary.error]
  /\ UNCHANGED <<sessionFile, writeLock, fileLog>>
  /\ RunVarsUnchanged /\ RunsUnchanged

\* sessionWriteLock.withLock grants the lock once it is free
CompactLockAcquired ==
  /\ compaction.pc = "locking"
  /\ writeLock = Free
  /\ writeLock' = "compaction"
  /\ compaction' = [compaction EXCEPT !.pc = "writing", !.locked = TRUE]
  /\ UNCHANGED <<sessionFile, fileLog, idCounter>>
  /\ RunVarsUnchanged /\ RunsUnchanged

\* writeSessionMessagesToJsonl settles and withLock releases the lock; a
\* failed write leaves the file as it was and its error leaves mastraCompact
CompactWriteDone(ok) ==
  /\ compaction.pc = "writing"
  /\ sessionFile' = IF ok THEN compaction.compacted ELSE sessionFile
  /\ fileLog' = IF ok THEN Append(fileLog, [op |-> "rewrite", by |-> "compaction",
                                             role |-> "all", lock |-> writeLock])
                ELSE fileLog
  /\ writeLock' = Free
  /\ compaction' = [compaction EXCEPT !.pc = IF ok THEN "done" ELSE "failed",
                                      !.error = IF ok THEN Null ELSE "WriteError"]
  /\ UNCHANGED idCounter
  /\ RunVarsUnchanged /\ RunsUnchanged

\* the writer that held the lock at the start releases it
OtherWriterReleases ==
  /\ writeLock = "other"
  /\ writeLock' = Free
  /\ UNCHANGED <<sessionFile, compaction, fileLog, idCounter>>
  /\ RunVarsUnchanged /\ RunsUnchanged

InitCompact ==
  /\ runner = "agent" /\ ext = NoSignal /\ RunIdle
  /\ sessionFile \in SeqsUpTo(SessionMessagePool, MaxHistory)
  /\ writeLock \in {Free, "other"}
  /\ runs = <<>>
  /\ compaction = [pc |-> "idle", messages |-> <<>>, called |-> FALSE,
                   outcome |-> [ok |-> TRUE, text |-> Undefined, error |-> Null],
                   compacted |-> <<>>, locked |-> FALSE, error |-> Null]
  /\ fileLog = <<>>
  /\ AdaptersIdle

NextCompact ==
  \/ CompactCalled
  \/ \E o \in GenerateOutcomes, k \in 0..MaxHistory, now \in Clock :
       CompactSummaryDone(o, k, now)
  \/ CompactLockAcquired
  \/ \E ok \in BOOLEAN : CompactWriteDone(ok)
  \/ OtherWriterReleases

SpecCompact == InitCompact /\ [][NextCompact]_vars

\* ------------------------------------------------ tool adapter: execute
\* SpecExecute: one call of the execute function adaptToolForMastra builds,
\* for every behaviour of the wrapped executor.
ErrorInstance(message) == [name |-> "Error", message |-> message]
\* err instanceof Error
IsErr(e) == "message" \in DOMAIN e

\* elements of a content-block array an executor may return
ResultBlocks ==
  {Str("s"), [type |-> "text", text |-> "a"], [type |-> "text", text |-> ""],
   [type |-> "image", data |-> "D"], [type |-> "blob", self |-> Cyclic]}

\* what an executor may resolve with
ToolResults ==
  {Str(""), Str("ok"), Str("Error: no"), Str("123456")}
    \cup {Arr(a) : a \in SeqsUpTo(ResultBlocks, MaxBlocks)}
    \cup {[type |-> "text", text |-> "t"], [type |-> "json", data |-> "v"],
          [type |-> "blob", self |-> Cyclic]}
    \cup {UndefinedValue, NullValue, Num(7)}

\* what an executor may throw or reject with
ThrownValues ==
  {ErrorInstance("boom"), ErrorInstance(""), Str("bad"), UndefinedValue, [code |-> "E"]}

ExecutorBehaviours ==
  {[kind |-> "returns", value |-> v] : v \in ToolResults}
    \cup {[kind |-> k, value |-> e] : k \in {"throws", "rejects"}, e \in ThrownValues}

\* the callback of result.map in normalizeToolResult
blockText(block) ==
  IF IsString(block) THEN block.str
  ELSE IF Get(block, "type") = "text" /\ HasString(block, "text") THEN block.text
  ELSE JsonStringify(block)

\* the callback reaches JSON.stringify with a block it cannot serialize
blockThrows(block) ==
  /\ ~IsString(block)
  /\ ~(Get(block, "type") = "text" /\ HasString(block, "text"))
  /\ JsonThrows(block)

\* normalizeToolResult raises instead of returning
normalizeToolResultThrows(value) ==
  IsArray(value) /\ \E i \in 1..Len(value.arr) : blockThrows(value.arr[i])

\* normalizeToolResult without .filter(Boolean)
normalizeToolResultNoFilter(value) ==
  IF IsString(value) THEN value
  ELSE IF IsArray(value)
  THEN Str(JoinWith([i \in 1..Len(value.arr) |-> blockText(value.arr[i])], "\n"))
  ELSE IF IsPlainObject(value)
  THEN IF HasString(value, "text") THEN Str(value.text) ELSE value
  ELSE Str(StringOrEmpty(value))

\* normalizeToolResult(result), for a result it does not raise on
normalizeToolResult(value) ==
  IF IsString(value) THEN value
  ELSE IF IsArray(value)
  THEN LET texts == [i \in 1..Len(value.arr) |-> blockText(value.arr[i])]
       IN Str(JoinWith(SelectSeq(texts, LAMBDA t : t # ""), "\n"))
  ELSE IF IsPlainObject(value)
  THEN IF HasString(value, "text") THEN Str(value.text) ELSE value
  ELSE Str(StringOrEmpty(value))

\* the message of the TypeError JSON.stringify throws
JsonErrorMessage == "Converting circular structure to JSON"

\* err instanceof Error ? err.message : String(err)
errorMessage(err) == IF IsErr(err) THEN err.message ELSE StringOf(err)

\* execute with a catch that rethrows
executeNoCatch(behaviour) ==
  IF behaviour.kind = "returns" /\ ~normalizeToolResultThrows(behaviour.value)
  THEN [status |-> "resolved", out |-> normalizeToolResult(behaviour.value),
        warned |-> FALSE, calls |-> 1]
  ELSE [status |-> "rejected", out |-> Str(""), warned |-> FALSE, calls |-> 1]

\* execute({ context }): the executor is called once inside the try; whatever
\* the try raises becomes an "Error: " string after log.warn
execute(behaviour) ==
  IF behaviour.kind = "returns"
  THEN IF normalizeToolResultThrows(behaviour.value)
       THEN [status |-> "resolved", out |-> Str("Error: " \o JsonErrorMessage),
             warned |-> TRUE, calls |-> 1]
       ELSE [status |-> "resolved", out |-> normalizeToolResult(behaviour.value),
             warned |-> FALSE, calls |-> 1]
  ELSE [status |-> "resolved", out |-> Str("Error: " \o errorMessage(behaviour.value)),
        warned |-> TRUE, calls |-> 1]

SessionUnchanged == UNCHANGED <<sessionFile, writeLock, runs, compaction, fileLog>>

\* the engine calls execute, which calls tool.execute(context, undefined)
ExecuteCalled ==
  /\ execCall.phase = "ready"
  /\ execCall' = [execCall EXCEPT !.phase = "running", !.calls = 1]
  /\ UNCHANGED <<toolsCall, adapter, idCounter, issued, schemaCall, configCall, llmCall>>
  /\ RunVarsUnchanged /\ SessionUnchanged

\* the promise execute returned settles
ExecuteSettled ==
  /\ execCall.phase = "running"
  /\ LET r == execute(execCall.behaviour)
     IN execCall' = [execCall EXCEPT !.phase = "settled", !.status = r.status,
                                     !.out = r.out, !.warned = r.warned, !.calls = r.calls]
  /\ UNCHANGED <<toolsCall, adapter, idCounter, issued, schemaCall, configCall, llmCall>>
  /\ RunVarsUnchanged /\ SessionUnchanged

InitExecute ==
  /\ runner = "agent" /\ ext = NoSignal /\ RunIdle
  /\ sessionFile = <<>>
  /\ SessionIdle
  /\ toolsCall = [phase |-> "idle"]
  /\ \E b \in ExecutorBehaviours :
       execCall = [phase |-> "ready", behaviour |-> b, status |-> "pending",
                   out |-> Str(""), warned |-> FALSE, calls |-> 0]
  /\ adapter = [phase |-> "idle"]
  /\ idCounter = 0
  /\ issued = <<>>
  /\ TranslatorsIdle

NextExecute == ExecuteCalled \/ ExecuteSettled

SpecExecute == InitExecute /\ [][NextExecute]_vars

\* ------------------------------------------------ tool adapter: adaptToolsForMastra
\* SpecAdaptTools: one adaptToolsForMastra call on every list of at most
\* MaxTools tools.  A record (a JavaScript object) is the sequence of its
\* entries in the order Object.keys lists them.
ArrayIndices == 0..9
\* property names that are canonical array indices
ArrayIndexNames == {ToString(n) : n \in ArrayIndices}
IndexValue(key) == CHOOSE n \in ArrayIndices : ToString(n) = key

\* obj[key] = value: an existing property keeps its place; a new array-index
\* key goes among the array-index keys in ascending numeric order, ahead of
\* all other keys; any other new key goes last
ObjectSet(obj, key, value) ==
  IF \E i \in 1..Len(obj) : obj[i].key = key
  THEN [i \in 1..Len(obj) |-> IF obj[i].key = key THEN [key |-> key, value |-> value]
                              ELSE obj[i]]
  ELSE IF key \in ArrayIndexNames
  THEN LET before == SelectSeq(obj, LAMBDA e : e.key \in ArrayIndexNames
                                               /\ IndexValue(e.key) < IndexValue(key))
           after == SelectSeq(obj, LAMBDA e : ~(e.key \in ArrayIndexNames
                                                /\ IndexValue(e.key) < IndexValue(key)))
       IN before \o <<[key |-> key, value |-> value]>> \o after
  ELSE Append(obj, [key |-> key, value |-> value])

\* Object.keys(obj)
ObjectKeys(obj) == [i \in 1..Len(obj) |-> obj[i].key]

\* the name property of an input tool: strings, a missing name, a non-string
ToolNamePool == {Str("a"), Str("b"), Str("2"), Str("1"), Str(""), UndefinedValue, Num(5)}
ToolPool == {[name |-> n, description |-> d] : n \in ToolNamePool, d \in {Undefined, "d"}}

\* the guard of the loop of adaptToolsForMastra without its !tool.name half
skipsToolNonString(tool) == ~IsString(tool.name)

\* !tool.name || typeof tool.name !== "string"
skipsTool(tool) == ~IsString(tool.name) \/ tool.name.str = ""

\* adaptToolForMastra(tool): the id and description given to createTool
adaptToolForMastra(tool) ==
  [id |-> tool.name.str, description |-> Coalesce(tool.description, tool.name.str)]

RECURSIVE adaptToolsFrom(_, _)
\* the for loop of adaptToolsForMastra, result being the record built so far
adaptToolsFrom(tools, record) ==
  IF tools = <<>> THEN record
  ELSE IF skipsTool(Head(tools)) THEN adaptToolsFrom(Tail(tools), record)
  ELSE adaptToolsFrom(Tail(tools),
                      ObjectSet(record, Head(tools).name.str, adaptToolForMastra(Head(tools))))

adaptToolsForMastra(tools) == adaptToolsFrom(tools, <<>>)

AdaptToolsCalled ==
  /\ toolsCall.phase = "ready"
  /\ toolsCall' = [toolsCall EXCEPT !.phase = "returned",
                                    !.record = adaptToolsForMastra(toolsCall.tools)]
  /\ UNCHANGED <<execCall, adapter, idCounter, issued, schemaCall, configCall, llmCall>>
  /\ RunVarsUnchanged /\ SessionUnchanged

InitAdaptTools ==
  /\ runner = "agent" /\ ext = NoSignal /\ RunIdle
  /\ sessionFile = <<>>
  /\ SessionIdle
  /\ \E tools \in SeqsUpTo(ToolPool, MaxTools) :
       toolsCall = [phase |-> "ready", tools |-> tools, record |-> <<>>]
  /\ execCall = [phase |-> "idle"]
  /\ adapter = [phase |-> "idle"]
  /\ idCounter = 0
  /\ issued = <<>>
  /\ TranslatorsIdle

NextAdaptTools == AdaptToolsCalled

SpecAdaptTools == InitAdaptTools /\ [][NextAdaptTools]_vars

\* ------------------------------------------------ message adapter calls
\* SpecMsg: one toCoreMessages call on every list of at most MaxMessages
\* entries, followed by fromCoreMessage on each engine message.
\* SpecIds: up to MaxCalls toCoreMessages calls in one process, which share
\* _idCounter.
TextBlock == [type |-> "text", text |-> "hi"]
ImageBlock == [type |-> "image", data |-> "AAAA", mimeType |-> "image/png"]
ToolCallBlock == [type |-> "toolCall", toolCallId |-> "c1", name |-> "read_file",
                  input |-> "{path}"]
ToolCallBlockIdOnly == [type |-> "tool_use", id |-> "c2", name |-> "read_file",
                        input |-> "{path}"]
ToolCallBlockNoId == [type |-> "toolCall", name |-> "read_file", input |-> "{path}"]
ThinkingBlock == [type |-> "thinking", thinking |-> "hm"]
ToolResultBlock == [type |-> "toolResult", toolCallId |-> "c1", toolName |-> "read_file",
                    result |-> "data"]
ToolResultBlockNoId == [type |-> "toolResult", toolName |-> "read_file", result |-> "data"]

UserMessages ==
  {[role |-> "user", content |-> c] :
     c \in {Str("Hello"), Arr(<<TextBlock>>), Arr(<<ImageBlock>>), Arr(<<TextBlock, ImageBlock>>),
            UndefinedValue}}
AssistantMessages ==
  {[role |-> "assistant", content |-> c] :
     c \in {Str("ok"), Arr(<<TextBlock>>), Arr(<<ToolCallBlock>>), Arr(<<ToolCallBlockIdOnly>>),
            Arr(<<ToolCallBlockNoId>>), Arr(<<TextBlock, ToolCallBlock>>),
            Arr(<<ThinkingBlock>>)}}
ToolMessages ==
  {[role |-> "tool", content |-> c] :
     c \in {Arr(<<ToolResultBlock>>), Arr(<<ToolResultBlockNoId>>), Str("data")}}
    \cup {[role |-> "tool", toolCallId |-> "c1", content |-> c] :
            c \in {Str("data"), Arr(<<ToolResultBlockNoId>>)}}
\* entries toCoreMessages drops: other roles, and entries that are no objects
OtherEntries ==
  {[role |-> "system", content |-> Str("You are helpful")],
   [role |-> "custom", content |-> Str("x")], NullValue, UndefinedValue}

MessagePool == UserMessages \cup AssistantMessages \cup ToolMessages \cup OtherEntries

\* the message lists of the calls that share the counter
IdInputs ==
  {<<>>,
   <<[role |-> "assistant", content |-> Arr(<<ToolCallBlockNoId>>)]>>,
   <<[role |-> "assistant", content |-> Arr(<<ToolCallBlockNoId, ToolCallBlockNoId>>)],
     [role |-> "tool", content |-> Str("data")]>>,
   <<[role |-> "tool", content |-> Arr(<<ToolResultBlockNoId>>)],
     [role |-> "assistant", content |-> Arr(<<ToolCallBlock, ToolCallBlockNoId>>)]>>,
   <<[role |-> "assistant", content |-> Arr(<<ToolCallBlockIdOnly>>)]>>,
   <<[role |-> "assistant", content |-> Arr(<<TextBlock, ToolCallBlockNoId>>)]>>}

RECURSIVE Flatten(_)
\* the concatenation of a sequence of sequences
Flatten(qs) == IF qs = <<>> THEN <<>> ELSE Head(qs) \o Flatten(Tail(qs))

\* the array under content, empty when content is no array
ContentArray(m) == IF IsArray(ContentOf(m)) THEN ContentOf(m).arr ELSE <<>>

\* the tool-call blocks of the assistant entries of a message list, in order
ToolCallBlocks(messages) ==
  Flatten([i \in 1..Len(messages) |->
             IF Get(messages[i], "role") = "assistant"
             THEN SelectSeq(ContentArray(messages[i]),
                            LAMBDA b : b.type \in {"toolCall", "tool_use"})
             ELSE <<>>])

\* the tool-call parts of a list of engine messages, in order
ToolCallParts(out) ==
  Flatten([i \in 1..Len(out) |->
             IF out[i].role = "assistant"
             THEN SelectSeq(ContentArray(out[i]), LAMBDA p : p.type = "tool-call")
             ELSE <<>>])

\* history: the id each tool-call part got and the id its block carried
IssuedBy(messages, out) ==
  [k \in 1..Len(ToolCallParts(out)) |->
     [id |-> ToolCallParts(out)[k].toolCallId,
      internal |-> Coalesce(Get(ToolCallBlocks(messages)[k], "toolCallId"),
                            Get(ToolCallBlocks(messages)[k], "id"))]]

\* toCoreMessages(adapter.input) is called and returns
ToCoreCalled(now) ==
  /\ adapter.phase = "ready"
  /\ LET r == toCoreMessages(adapter.input, idCounter, now)
     IN /\ adapter' = [adapter EXCEPT !.phase = "translated", !.out = r.out,
                                      !.calls = adapter.calls + 1]
        /\ idCounter' = r.counter
        /\ issued' = issued \o IssuedBy(adapter.input, r.out)
  /\ UNCHANGED <<toolsCall, execCall, schemaCall, configCall, llmCall>>
  /\ RunVarsUnchanged /\ SessionUnchanged

\* fromCoreMessage is applied to each engine message, as when persisting
FromCoreMapped ==
  /\ adapter.phase = "translated"
  /\ adapter' = [adapter EXCEPT !.phase = "back",
                   !.back = [i \in 1..Len(adapter.out) |-> fromCoreMessage(adapter.out[i])]]
  /\ UNCHANGED <<toolsCall, execCall, idCounter, issued, schemaCall, configCall, llmCall>>
  /\ RunVarsUnchanged /\ SessionUnchanged

\* the process calls toCoreMessages again, with another message list
NextInput(messages) ==
  /\ adapter.phase = "translated"
  /\ adapter.calls < MaxCalls
  /\ adapter' = [adapter EXCEPT !.phase = "ready", !.input = messages, !.out = <<>>]
  /\ UNCHANGED <<toolsCall, execCall, idCounter, issued, schemaCall, configCall, llmCall>>
  /\ RunVarsUnchanged /\ SessionUnchanged

AdapterReady(inputs) ==
  /\ runner = "agent" /\ ext = NoSignal /\ RunIdle
  /\ sessionFile = <<>>
  /\ SessionIdle
  /\ toolsCall = [phase |-> "idle"]
  /\ execCall = [phase |-> "idle"]
  /\ \E messages \in inputs :
       adapter = [phase |-> "ready", input |-> messages, out |-> <<>>, back |-> <<>>,
                  calls |-> 0]
  /\ idCounter = 0
  /\ issued = <<>>
  /\ TranslatorsIdle

InitMsg == AdapterReady(SeqsUpTo(MessagePool, MaxMessages))

NextMsg ==
  \/ \E now \in Clock : ToCoreCalled(now)
  \/ FromCoreMapped

SpecMsg == InitMsg /\ [][NextMsg]_vars

InitIds == AdapterReady(IdInputs)

NextIds ==
  \/ \E now \in Clock : ToCoreCalled(now)
  \/ \E messages \in IdInputs : NextInput(messages)

SpecIds == InitIds /\ [][NextIds]_vars

\* ------------------------------------------------ schema translator
\* SpecSchema: one typeboxToZod call on every schema of SchemaPool, then one
\* parse of a value by the schema returned.  A schema is a record of the
\* properties it has; a value object is the set of its entries, so that an
\* object without properties is a value like any other.
Bool(b) == [bool |-> b]
\* the number n + 0.5
Frac(n) == [num |-> n, half |-> TRUE]
Obj(entries) == [obj |-> entries]
Entry(k, v) == [key |-> k, value |-> v]

IsNumber(v) == "num" \in DOMAIN v
IsInteger(v) == IsNumber(v) /\ "half" \notin DOMAIN v
IsBoolean(v) == "bool" \in DOMAIN v
IsNull(v) == "nil" \in DOMAIN v
IsUndefined(v) == "undef" \in DOMAIN v
IsObjectValue(v) == "obj" \in DOMAIN v
\* twice the number, to compare halves with whole bounds
Twice(v) == 2 * v.num + (IF "half" \in DOMAIN v THEN 1 ELSE 0)
HasKey(v, k) == \E e \in v.obj : e.key = k
\* v[k]
Prop(v, k) == IF HasKey(v, k) THEN (CHOOSE e \in v.obj : e.key = k).value ELSE UndefinedValue

\* !schema || typeof schema !== "object", on the inputs modelled
notASchemaObject(schema) ==
  IsNull(schema) \/ IsUndefined(schema) \/ IsString(schema) \/ IsNumber(schema)
  \/ IsBoolean(schema)

\* a regular-expression source is the sequence of its characters; new RegExp
\* raises a SyntaxError on a group that is not closed or not opened
RegExpThrows(source) ==
  LET \* the number of groups open before each character and at the end
      depth(n) == Cardinality({i \in 1..n : source[i] = "("})
                  - Cardinality({i \in 1..n : source[i] = ")"})
  IN depth(Len(source)) # 0 \/ \E n \in 1..Len(source) : depth(n) < 0

\* regex.test(text) for a pattern of literal characters and groups: the
\* literal characters occur in text, in order and side by side.  The strings
\* parsed are pieces of "abc".
RegExpTest(source, text) ==
  LET literal == JoinWith(SelectSeq(source, LAMBDA c : c \notin {"(", ")"}), "")
      pieces == {"", "a", "b", "c", "ab", "bc", "abc"}
  IN \E before \in pieces, after \in pieces : text = before \o literal \o after

\* what typeboxToZod returns: the zod schema built, or the exception raised
ZUnknown == [zod |-> "unknown"]
\* the call raised: the record holds the exception instead of a schema
Throws(z) == "throws" \in DOMAIN z

\* if (s.description) return x.describe(s.description); return x
describe(z, s) ==
  IF "description" \in DOMAIN s /\ s.description # ""
  THEN [zod |-> "described", inner |-> z, description |-> s.description]
  ELSE z

\* members.length === 1 ? members[0] : z.union(members); an exception raised
\* while mapping the members leaves the function
unionOf(members) ==
  IF \E i \in 1..Len(members) : Throws(members[i])
  THEN members[CHOOSE i \in 1..Len(members) :
                 Throws(members[i]) /\ \A j \in 1..(i - 1) : ~Throws(members[j])]
  ELSE IF Len(members) = 1 THEN members[1]
  ELSE [zod |-> "union", options |-> members]

RECURSIVE typeboxToZod(_)
\* a zod schema is a record: its kind and what the kind is built from, the
\* checks of a string or number schema being the sets of their bounds
typeboxToZod(schema) ==
  LET Keyword(f) == IF f \in DOMAIN schema THEN {schema[f]} ELSE {}
  IN
  IF notASchemaObject(schema) THEN ZUnknown
  ELSE IF "anyOf" \in DOMAIN schema /\ Len(schema.anyOf) > 0
  THEN unionOf([i \in 1..Len(schema.anyOf) |-> typeboxToZod(schema.anyOf[i])])
  ELSE IF "oneOf" \in DOMAIN schema /\ Len(schema.oneOf) > 0
  THEN unionOf([i \in 1..Len(schema.oneOf) |-> typeboxToZod(schema.oneOf[i])])
  ELSE IF "enum" \in DOMAIN schema /\ Len(schema.enum) > 0
  THEN IF \A i \in 1..Len(schema.enum) : IsString(schema.enum[i])
       THEN [zod |-> "enum", values |-> {schema.enum[i] : i \in 1..Len(schema.enum)}]
       ELSE ZUnknown
  ELSE IF "const" \in DOMAIN schema THEN [zod |-> "literal", value |-> schema.const]
  ELSE IF "type" \notin DOMAIN schema THEN ZUnknown
  ELSE IF schema.type = "object"
  THEN LET required == IF "required" \in DOMAIN schema THEN schema.required ELSE {}
           properties == IF "properties" \in DOMAIN schema THEN schema.properties ELSE {}
           zodProp(e) == typeboxToZod(e.schema)
           shape == {[key |-> e.key,
                      schema |-> IF e.key \in required THEN zodProp(e)
                                 ELSE [zod |-> "optional", inner |-> zodProp(e)]] :
                         e \in properties}
       IN IF \E e \in properties : Throws(zodProp(e))
          THEN zodProp(CHOOSE e \in properties : Throws(zodProp(e)))
          ELSE describe([zod |-> "object", shape |-> shape], schema)
  ELSE IF schema.type = "array"
  THEN LET itemSchema == IF "items" \in DOMAIN schema THEN typeboxToZod(schema.items)
                         ELSE ZUnknown
       IN IF Throws(itemSchema) THEN itemSchema
          ELSE describe([zod |-> "array", element |-> itemSchema], schema)
  ELSE IF schema.type = "string"
  THEN IF "pattern" \in DOMAIN schema /\ RegExpThrows(schema.pattern)
       THEN [throws |-> "SyntaxError"]
       ELSE describe([zod |-> "string", mins |-> Keyword("minLength"),
                      maxs |-> Keyword("maxLength"), regexes |-> Keyword("pattern")], schema)
  ELSE IF schema.type \in {"number", "integer"}
  THEN describe([zod |-> "number", int |-> schema.type = "integer",
                 mins |-> Keyword("minimum"), maxs |-> Keyword("maximum")], schema)
  ELSE IF schema.type = "boolean" THEN describe([zod |-> "boolean"], schema)
  ELSE IF schema.type = "null" THEN [zod |-> "null"]
  ELSE ZUnknown

RECURSIVE safeParse(_, _)
\* z.safeParse(v).success for the schemas typeboxToZod builds: an object
\* schema parses v[key] for every key of its shape, the value of a missing
\* key being undefined, and lets other keys through
safeParse(z, v) ==
  IF z.zod = "unknown" THEN TRUE
  ELSE IF z.zod = "described" THEN safeParse(z.inner, v)
  ELSE IF z.zod = "optional" THEN IsUndefined(v) \/ safeParse(z.inner, v)
  ELSE IF z.zod = "null" THEN IsNull(v)
  ELSE IF z.zod = "boolean" THEN IsBoolean(v)
  ELSE IF z.zod = "enum" THEN v \in z.values
  ELSE IF z.zod = "literal" THEN v = z.value
  ELSE IF z.zod = "union" THEN \E i \in 1..Len(z.options) : safeParse(z.options[i], v)
  ELSE IF z.zod = "array"
  THEN IsArray(v) /\ \A i \in 1..Len(v.arr) : safeParse(z.element, v.arr[i])
  ELSE IF z.zod = "object"
  THEN IsObjectValue(v) /\ \A e \in z.shape : safeParse(e.schema, Prop(v, e.key))
  ELSE IF z.zod = "string"
  THEN /\ IsString(v)
       /\ \A m \in z.mins : Len(v.str) >= m
       /\ \A m \in z.maxs : Len(v.str) <= m
       /\ \A r \in z.regexes : RegExpTest(r, v.str)
  ELSE /\ IsNumber(v)
       /\ z.int => IsInteger(v)
       /\ \A m \in z.mins : Twice(v) >= 2 * m
       /\ \A m \in z.maxs : Twice(v) <= 2 * m

\* the values parsed
ValuePool ==
  LET wrapValue(v) == {Arr(<<v>>), Obj({Entry("path", v)})}
      RECURSIVE NestedValues(_)
      NestedValues(depth) ==
        IF depth = 0 THEN {Str("a"), Num(1)}
        ELSE UNION {wrapValue(v) : v \in NestedValues(depth - 1)}
  IN {Str("a"), Str("b"), Str("abc"), Num(1), Num(3), Frac(3), Bool(TRUE), NullValue,
      UndefinedValue}
     \cup {Arr(<<>>), Arr(<<Str("a"), Num(1)>>), Obj({}), Obj({Entry("age", Num(1))}),
           Obj({Entry("name", Str("a"))}),
           Obj({Entry("name", Str("a")), Entry("age", Num(1))})}
     \cup UNION {NestedValues(d) : d \in 1..MaxDepth}

\* the schemas translated
SchemaPool ==
  LET StringSchemas ==
        {[type |-> "string"], [type |-> "string", minLength |-> 2],
         [type |-> "string", maxLength |-> 2], [type |-> "string", description |-> "d"],
         [type |-> "string", pattern |-> <<"b">>],
         [type |-> "string", pattern |-> <<"(", "b", ")">>],
         [type |-> "string", pattern |-> <<"(", "b">>]}
      NumberSchemas ==
        {[type |-> "number"], [type |-> "integer"],
         [type |-> "number", minimum |-> 2, maximum |-> 4]}
      EnumSchemas ==
        {[enum |-> <<Str("a"), Str("b")>>], [enum |-> <<Num(1), Num(3)>>],
         [enum |-> <<Str("a"), Num(1)>>], [type |-> "string", enum |-> <<>>]}
      ConstSchemas == {[const |-> Str("a")], [const |-> Num(1)]}
      OtherLeaves ==
        {[type |-> "boolean"], [type |-> "null"], [type |-> "unsupported-type"],
         [description |-> "d"]}
      NonObjectInputs == {NullValue, UndefinedValue, Str("string"), Num(1), Bool(TRUE)}
      UnionMembers == {[type |-> "string"], [type |-> "number"], [type |-> "integer"]}
      UnionSchemas ==
        {[anyOf |-> members] : members \in SeqsUpTo(UnionMembers, MaxUnion)}
        \cup {[oneOf |-> members] : members \in SeqsUpTo(UnionMembers, MaxUnion) \ {<<>>}}
        \cup {[type |-> "string", oneOf |-> <<>>],
              [anyOf |-> <<[type |-> "string"], [type |-> "string", pattern |-> <<")">>]>>]}
      Property(k, s) == [key |-> k, schema |-> s]
      ObjectSchemas ==
        {[type |-> "object"],
         [type |-> "object", properties |-> {}, required |-> {"path"}],
         [type |-> "object", description |-> "d", required |-> {"path"},
          properties |-> {Property("path", [type |-> "string"])}],
         [type |-> "object", required |-> {"name"},
          properties |-> {Property("name", [type |-> "string"]),
                          Property("age", [type |-> "number"])}],
         [type |-> "array"]}
      wrapSchema(s) ==
        {[type |-> "array", items |-> s],
         [type |-> "object", properties |-> {Property("path", s)}, required |-> {"path"}],
         [type |-> "object", properties |-> {Property("path", s)}]}
      RECURSIVE NestedSchemas(_)
      NestedSchemas(depth) ==
        IF depth = 0
        THEN {[type |-> "string"], [type |-> "number"], [type |-> "unsupported-type"],
              [type |-> "string", pattern |-> <<"(">>]}
        ELSE UNION {wrapSchema(s) : s \in NestedSchemas(depth - 1)}
  IN StringSchemas \cup NumberSchemas \cup EnumSchemas \cup ConstSchemas \cup OtherLeaves
     \cup NonObjectInputs \cup UnionSchemas \cup ObjectSchemas
     \cup UNION {NestedSchemas(d) : d \in 1..MaxDepth}

\* typeboxToZod(schemaCall.schema) is called and returns or raises
TypeboxToZodCalled ==
  /\ schemaCall.phase = "ready"
  /\ LET z == typeboxToZod(schemaCall.schema)
     IN schemaCall' = [schemaCall EXCEPT !.phase = IF Throws(z) THEN "raised" ELSE "returned",
                                         !.zod = z]
  /\ UNCHANGED <<toolsCall, execCall, adapter, idCounter, issued, configCall, llmCall>>
  /\ RunVarsUnchanged /\ SessionUnchanged

\* the schema returned parses one value
ParseCalled(value) ==
  /\ schemaCall.phase = "returned"
  /\ schemaCall' = [schemaCall EXCEPT !.phase = "parsed", !.value = value,
                                      !.success = safeParse(schemaCall.zod, value)]
  /\ UNCHANGED <<toolsCall, execCall, adapter, idCounter, issued, configCall, llmCall>>
  /\ RunVarsUnchanged /\ SessionUnchanged

InitSchema ==
  /\ runner = "agent" /\ ext = NoSignal /\ RunIdle
  /\ sessionFile = <<>>
  /\ SessionIdle
  /\ toolsCall = [phase |-> "idle"]
  /\ execCall = [phase |-> "idle"]
  /\ adapter = [phase |-> "idle"]
  /\ idCounter = 0
  /\ issued = <<>>
  /\ configCall = [phase |-> "idle"]
  /\ llmCall = [phase |-> "idle"]
  /\ \E schema \in SchemaPool :
       schemaCall = [phase |-> "ready", schema |-> schema, zod |-> [zod |-> "none"],
                     value |-> UndefinedValue, success |-> FALSE]

NextSchema == TypeboxToZodCalled \/ \E value \in ValuePool : ParseCalled(value)

SpecSchema == InitSchema /\ [][NextSchema]_vars

\* ------------------------------------------------ model config
\* SpecConfig: one call of toMastraModelConfig (the model-config module that
\* runMastraAgent awaits, or the earlier synchronous one that runMastraLlmCall
\* calls) or of toMastraProviderOptions, on every combination of parameters
\* of the pools below.  An absent optional string holds Undefined.
ModelApis == {"anthropic-messages", "openai-completions", "openai-responses",
              "openai-codex-responses", "google-generative-ai", "bedrock-converse-stream",
              "ollama", "github-copilot", "custom-api"}
Providers == {"anthropic", "Anthropic", "openai", "google", "my-google-vertex",
              "unknown-provider"}
\* "off" | "minimal" | "low" | "medium" | "high" | "xhigh", or no level
ThinkLevels == {Undefined, "off", "minimal", "low", "medium", "high", "xhigh"}
\* params.headers when the caller passes none
NoHeaders == [present |-> FALSE, keys |-> {}]

\* String.prototype.toLowerCase on the provider names of the pool
toLowerCase(s) == IF s = "Anthropic" THEN "anthropic" ELSE s
\* String.prototype.includes on the provider names of the pool
includes(s, part) ==
  \E before \in {"", "my-"}, after \in {"", "-vertex"} : s = before \o part \o after
\* String.prototype.trim on the base URLs of the pool
trim(s) == IF s = " https://proxy.example/v1 " THEN "https://proxy.example/v1" ELSE s

resolveDefaultBaseUrl(api) ==
  IF api = "anthropic-messages" THEN "https://api.anthropic.com/v1"
  ELSE IF api \in {"openai-completions", "openai-responses", "openai-codex-responses"}
  THEN "https://api.openai.com/v1"
  ELSE IF api = "ollama" THEN "http://localhost:11434/v1"
  ELSE IF api = "github-copilot" THEN "https://api.githubcopilot.com"
  ELSE Undefined

\* model-config: the settled value of the promise, a native model of an
\* @ai-sdk package, a rejection when the package cannot be imported, or the
\* OpenAI-compatible descriptor with the optional fields that were set
toMastraModelConfig(params, importOk) ==
  IF params.modelApi = "google-generative-ai"
  THEN IF importOk THEN [sdk |-> "@ai-sdk/google", modelId |-> params.modelId]
       ELSE [rejected |-> "import"]
  ELSE IF params.modelApi = "bedrock-converse-stream"
  THEN IF importOk THEN [sdk |-> "@ai-sdk/amazon-bedrock", modelId |-> params.modelId]
       ELSE [rejected |-> "import"]
  ELSE LET resolvedUrl == Coalesce(params.baseUrl, resolveDefaultBaseUrl(params.modelApi))
       IN [id |-> params.provider \o "/" \o params.modelId,
           url |-> IF resolvedUrl \in {Undefined, ""} THEN Undefined ELSE resolvedUrl,
           apiKey |-> IF params.apiKey \in {Undefined, ""} THEN Undefined ELSE params.apiKey,
           headers |-> IF params.headers.present /\ params.headers.keys # {}
                       THEN params.headers ELSE NoHeaders]

\* the earlier module: customBaseUrl, trimmed, or the default of the api
resolveProviderBaseUrl(api, customBaseUrl) ==
  IF customBaseUrl \notin {Undefined, ""} /\ trim(customBaseUrl) # ""
  THEN trim(customBaseUrl)
  ELSE IF api = "google-generative-ai"
  THEN "https://generativelanguage.googleapis.com/v1beta/openai"
  ELSE IF api = "bedrock-converse-stream" THEN Undefined
  ELSE resolveDefaultBaseUrl(api)

\* the earlier module: always the OpenAI-compatible descriptor
toMastraModelConfigCompatible(params) ==
  [id |-> params.provider \o "/" \o params.modelId,
   url |-> resolveProviderBaseUrl(params.modelApi, params.baseUrl),
   apiKey |-> params.apiKey,
   headers |-> params.headers]

thinkLevelToAnthropicBudget(level) ==
  CASE level = "minimal" -> 1024
    [] level = "low" -> 2048
    [] level = "medium" -> 8000
    [] level = "high" -> 16000
    [] level = "xhigh" -> 32000
    [] OTHER -> 8000

thinkLevelToOpenAIEffort(level) ==
  CASE level \in {"minimal", "low"} -> "low"
    [] level = "medium" -> "medium"
    [] level \in {"high", "xhigh"} -> "high"
    [] OTHER -> "medium"

\* a budget, or no budget for a level outside the table
thinkLevelToGoogleBudget(level) ==
  CASE level = "minimal" -> {512}
    [] level = "low" -> {1024}
    [] level = "medium" -> {4096}
    [] level = "high" -> {8192}
    [] level = "xhigh" -> {16384}
    [] OTHER -> {}

NoOptions == [none |-> TRUE]

\* toMastraProviderOptions with the Anthropic test after the OpenAI one
toMastraProviderOptionsOpenAIFirst(thinkLevel, provider, modelApi) ==
  IF thinkLevel \in {Undefined, "", "off"} THEN NoOptions
  ELSE IF modelApi \in {"openai-completions", "openai-responses"}
          \/ toLowerCase(provider) = "openai"
  THEN [openai |-> [reasoningEffort |-> thinkLevelToOpenAIEffort(thinkLevel)]]
  ELSE IF modelApi = "anthropic-messages" \/ toLowerCase(provider) = "anthropic"
  THEN [anthropic |-> [thinking |-> [type |-> "enabled",
                                    budgetTokens |-> thinkLevelToAnthropicBudget(thinkLevel)]]]
  ELSE IF (modelApi = "google-generative-ai" \/ includes(toLowerCase(provider), "google"))
          /\ thinkLevelToGoogleBudget(thinkLevel) # {}
  THEN [google |-> [thinkingConfig |->
                      [thinkingBudget |-> CHOOSE b \in thinkLevelToGoogleBudget(thinkLevel) :
                                            TRUE]]]
  ELSE NoOptions

toMastraProviderOptions(thinkLevel, provider, modelApi) ==
  LET normalizedProvider == toLowerCase(provider)
  IN IF thinkLevel \in {Undefined, "", "off"} THEN NoOptions
     ELSE IF modelApi = "anthropic-messages" \/ normalizedProvider = "anthropic"
     THEN [anthropic |-> [thinking |-> [type |-> "enabled",
                                       budgetTokens |-> thinkLevelToAnthropicBudget(thinkLevel)]]]
     ELSE IF modelApi \in {"openai-completions", "openai-responses"}
             \/ normalizedProvider = "openai"
     THEN [openai |-> [reasoningEffort |-> thinkLevelToOpenAIEffort(thinkLevel)]]
     ELSE IF (modelApi = "google-generative-ai" \/ includes(normalizedProvider, "google"))
             /\ thinkLevelToGoogleBudget(thinkLevel) # {}
     THEN [google |-> [thinkingConfig |->
                         [thinkingBudget |-> CHOOSE b \in thinkLevelToGoogleBudget(thinkLevel) :
                                               TRUE]]]
     ELSE NoOptions

ConfigVarsUnchanged ==
  /\ UNCHANGED <<toolsCall, execCall, adapter, idCounter, issued, schemaCall, llmCall>>
  /\ RunVarsUnchanged /\ SessionUnchanged

\* await toMastraModelConfig(params) of model-config settles
ModelConfigCalled(importOk) ==
  /\ configCall.phase = "ready" /\ configCall.call = "toMastraModelConfig"
  /\ configCall' = [configCall EXCEPT !.phase = "settled",
                                      !.out = toMastraModelConfig(configCall.params, importOk)]
  /\ ConfigVarsUnchanged

\* toMastraModelConfig(params) of the earlier module returns
ModelConfigCompatibleCalled ==
  /\ configCall.phase = "ready" /\ configCall.call = "toMastraModelConfigCompatible"
  /\ configCall' = [configCall EXCEPT !.phase = "settled",
                                      !.out = toMastraModelConfigCompatible(configCall.params)]
  /\ ConfigVarsUnchanged

\* toMastraProviderOptions(thinkLevel, provider, modelApi) returns
ProviderOptionsCalled ==
  /\ configCall.phase = "ready" /\ configCall.call = "toMastraProviderOptions"
  /\ configCall' = [configCall EXCEPT !.phase = "settled",
                     !.out = toMastraProviderOptions(configCall.params.thinkLevel,
                                                     configCall.params.provider,
                                                     configCall.params.modelApi)]
  /\ ConfigVarsUnchanged

InitConfig ==
  /\ runner = "agent" /\ ext = NoSignal /\ RunIdle
  /\ sessionFile = <<>>
  /\ SessionIdle
  /\ toolsCall = [phase |-> "idle"]
  /\ execCall = [phase |-> "idle"]
  /\ adapter = [phase |-> "idle"]
  /\ idCounter = 0
  /\ issued = <<>>
  /\ schemaCall = [phase |-> "idle"]
  /\ llmCall = [phase |-> "idle"]
  /\ \E call \in {"toMastraModelConfig", "toMastraModelConfigCompatible",
                  "toMastraProviderOptions"},
        provider \in Providers, modelApi \in ModelApis, thinkLevel \in ThinkLevels,
        baseUrl \in {Undefined, "", "https://proxy.example/v1", " https://proxy.example/v1 "},
        apiKey \in {Undefined, "sk-1"},
        headers \in {NoHeaders, [present |-> TRUE, keys |-> {}],
                     [present |-> TRUE, keys |-> {"x-title"}]} :
       /\ call = "toMastraProviderOptions"
            => baseUrl = Undefined /\ apiKey = Undefined /\ headers = NoHeaders
       /\ call # "toMastraProviderOptions" => thinkLevel = Undefined
       /\ configCall = [phase |-> "ready", call |-> call, out |-> NoOptions,
                        params |-> [provider |-> provider, modelId |-> "m1",
                                    modelApi |-> modelApi, thinkLevel |-> thinkLevel,
                                    baseUrl |-> baseUrl, apiKey |-> apiKey,
                                    headers |-> headers]]

NextConfig ==
  \/ \E importOk \in BOOLEAN : ModelConfigCalled(importOk)
  \/ ModelConfigCompatibleCalled
  \/ ProviderOptionsCalled

SpecConfig == InitConfig /\ [][NextConfig]_vars

\* ------------------------------------------------ executeStream: context guard
\* SpecGuard: the caller's view of params.messages over one runMastraLlmCall
\* run.  A message is its role, the number of characters of its content and
\* whether the content ends in the truncation marker.  The model descriptor
\* carries contextWindow or maxTokens (an absent one is the empty set).
CHARS_PER_TOKEN_ESTIMATE == 4
CONTEXT_INPUT_HEADROOM_PERCENT == 75
SINGLE_TOOL_RESULT_CONTEXT_PERCENT == 50
TOOL_RESULT_CHARS_PER_TOKEN_ESTIMATE == 2
MinBudgetChars == 1024

Max(a, b) == IF a >= b THEN a ELSE b

\* Math.max(1, Math.floor(contextWindow ?? maxTokens ?? DEFAULT_CONTEXT_TOKENS))
contextWindowTokens(model) ==
  Max(1, CHOOSE n \in (IF model.contextWindow # {} THEN model.contextWindow
                       ELSE model.maxTokens) : TRUE)
contextBudgetChars(model) ==
  Max(MinBudgetChars,
      (contextWindowTokens(model) * CHARS_PER_TOKEN_ESTIMATE * CONTEXT_INPUT_HEADROOM_PERCENT)
        \div 100)
maxSingleToolResultChars(model) ==
  Max(MinBudgetChars,
      (contextWindowTokens(model) * TOOL_RESULT_CHARS_PER_TOKEN_ESTIMATE
         * SINGLE_TOOL_RESULT_CONTEXT_PERCENT) \div 100)

\* the array after enforceToolResultContextBudgetInPlace: a tool result
\* over the single-result share is cut to it and ends in the marker, every
\* other message is left as it is
enforceToolResultContextBudgetInPlace(messages, budgetChars, maxSingleChars) ==
  [i \in 1..Len(messages) |->
     IF messages[i].role = "toolResult" /\ messages[i].chars > maxSingleChars
     THEN [messages[i] EXCEPT !.chars = maxSingleChars, !.truncated = TRUE]
     ELSE messages[i]]

GuardVarsUnchanged ==
  /\ UNCHANGED <<toolsCall, execCall, adapter, idCounter, issued, schemaCall, configCall>>
  /\ RunVarsUnchanged /\ SessionUnchanged

\* runMastraLlmCall(params) is called: executeStream runs its synchronous
\* prefix on params.messages and reaches its first await
ExecuteStreamPrepared ==
  /\ llmCall.phase = "ready"
  /\ llmCall' = [llmCall EXCEPT
                   !.phase = "streaming",
                   !.messages = enforceToolResultContextBudgetInPlace(
                                  llmCall.messages, contextBudgetChars(llmCall.model),
                                  maxSingleToolResultChars(llmCall.model))]
  /\ GuardVarsUnchanged

\* the rest of the run, which reads coreMessages only: the result settles
ExecuteStreamSettled ==
  /\ llmCall.phase = "streaming"
  /\ llmCall' = [llmCall EXCEPT !.phase = "settled"]
  /\ GuardVarsUnchanged

InitGuard ==
  /\ runner = "llm" /\ ext = NoSignal /\ RunIdle
  /\ sessionFile = <<>>
  /\ SessionIdle
  /\ toolsCall = [phase |-> "idle"]
  /\ execCall = [phase |-> "idle"]
  /\ adapter = [phase |-> "idle"]
  /\ idCounter = 0
  /\ issued = <<>>
  /\ schemaCall = [phase |-> "idle"]
  /\ configCall = [phase |-> "idle"]
  /\ \E messages \in SeqsUpTo({[role |-> "user", chars |-> 5, truncated |-> FALSE]}
                              \cup {[role |-> "toolResult", chars |-> n, truncated |-> FALSE] :
                                      n \in {10, 1500, 3000, 5000}}, MaxHistory),
        contextWindow \in {{}, {100}, {4000}}, maxTokens \in {{}, {2000}} :
       /\ contextWindow \cup maxTokens # {}
       /\ llmCall = [phase |-> "ready", messages |-> messages, before |-> messages,
                     model |-> [contextWindow |-> contextWindow, maxTokens |-> maxTokens]]

NextGuard == ExecuteStreamPrepared \/ ExecuteStreamSettled

SpecGuard == InitGuard /\ [][NextGuard]_vars

\* ------------------------------------------------ derived views
Settled == result.status # "pending"

RECURSIVE SeqMap(_, _)
SeqMap(F(_), s) == IF s = <<>> THEN <<>> ELSE <<F(Head(s))>> \o SeqMap(F, Tail(s))

TextOf(e) == e.text
NameOf(e) == e.name
ChunkOf(d) == d.chunk

\* texts passed to queueMessage while isStreaming() was true, in call order
AcceptedTexts == SeqMap(TextOf, SelectSeq(offered, LAMBDA o : o.streaming))
OfferedTexts == {offered[i].text : i \in 1..Len(offered)}

\* the callbacks of the demux loop (everything but onFinish)
StreamEvents == SelectSeq(events, LAMBDA e : e.cb # "onFinish")
FinishEvents == SelectSeq(events, LAMBDA e : e.cb = "onFinish")

\* every text the caller receives from a run: callback arguments in
\* invocation order, then the text of the result
ReceivedTexts == SeqMap(TextOf, events) \o <<result.text>>

\* which chunks the demux loop of a runner recognises, and the callback a
\* recognised chunk stands for
Recognised(r, c) ==
  \/ c.type = "text-delta" /\ IsStringText(c.textDelta)
  \/ c.type \in {"tool-call", "tool-result"} /\ (r = "llm" \/ c.toolName # Undefined)

CallbackFor(c) ==
  IF c.type = "text-delta" THEN Event("onTextDelta", Undefined, c.textDelta)
  ELSE Event(IF c.type = "tool-call" THEN "onToolCall" ELSE "onToolResult",
             IF c.toolName = Undefined THEN "unknown" ELSE c.toolName, <<>>)

\* the callbacks a sequence of delivered chunks stands for, in stream order
ExpectedEvents(r, ds) ==
  SeqMap(CallbackFor, SelectSeq(SeqMap(ChunkOf, ds), LAMBDA c : Recognised(r, c)))

\* chunks the loop body processed: runMastraAgent leaves the loop on the
\* first chunk it pulls after the signal fired
Processed == IF runner = "agent" THEN SelectSeq(delivered, LAMBDA d : ~d.afterAbort)
             ELSE delivered


\* ------------------------------------------------ claims
\* C1: handle.queueMessage(text) appends text to the pending queue if and
\* only if the run is streaming at the call, and is a no-op otherwise: the
\* queue always holds exactly the texts offered while streaming, in call
\* order; no offered text is in the message list of the engine call.
C1_QueuedIffStreaming ==
  /\ pendingMessages = AcceptedTexts
  /\ \A i \in 1..Len(engineMessages) : engineMessages[i].content \notin OfferedTexts
  /\ engineMessages \in {<<>>, HistoryMessages}

\* a call while streaming was followed by a call after the result settled
C1_Witness ==
  /\ Len(offered) = 2 /\ offered[1].streaming /\ ~offered[2].streaming
  /\ pendingMessages = <<QueueText(1)>>
  /\ Settled

\* C2: once the result has settled, every text queued while streaming has
\* been handed to the caller (by a callback or in the result), in queue order.
C2_QueuedTextsHandedOver ==
  Settled =>
    SelectSeq(ReceivedTexts, LAMBDA t : t \in OfferedTexts) = AcceptedTexts

\* C3: from the return of the handle on, isStreaming() is true exactly while
\* the result promise is pending, on every exit path.
C3_StreamingUntilSettled ==
  (runner = "llm" /\ pc # "idle") => (streaming <=> ~Settled)

\* the run failed before agent.stream was issued and the flag is down
C3_Witness ==
  /\ runner = "llm" /\ result.status = "rejected"
  /\ result.error \in {"prepareError", "notInstalled", "setupError"}
  /\ engineMessages = <<>> /\ ~streaming /\ streamingResets = 1


\* whether a handle.abort call indicates a timeout
IndicatesTimeout(call) == call.isTimeout \/ call.reason = "TimeoutError"

\* C4: a run whose outcome is aborted never has its finish callback invoked:
\* no run reports both a finish event and an aborted outcome.
C4_NoFinishWhenAborted ==
  (runner = "llm" /\ abortCalls # <<>> /\ result.status = "resolved" /\ result.aborted) =>
    FinishEvents = <<>>

\* C5: after handle.abort(isTimeout, reason) is called while the run is
\* streaming, the result records aborted = true, and timedOut = true exactly
\* when the abort indicates a timeout.
C5_AbortRecorded ==
  (runner = "llm" /\ result.status = "resolved" /\ abortCalls # <<>>
     /\ abortCalls[1].streaming /\ ~ext.aborted) =>
    /\ result.aborted
    /\ result.timedOut <=> IndicatesTimeout(abortCalls[1])

\* C6: the result promise of runMastraLlmCall never rejects; every failure
\* resolves with a result whose promptError is set.
C6_NeverRejects ==
  runner = "llm" => result.status # "rejected"

\* C7: the demux callbacks are invoked in the order in which their chunks
\* arrive on the stream, one callback per recognised chunk the loop processed,
\* with no reordering, duplication or loss.
C7_CallbacksInStreamOrder ==
  StreamEvents = ExpectedEvents(runner, Processed)

\* a tool call and then its result arrived and both callbacks were invoked
C7_Witness ==
  /\ Len(delivered) = 2
  /\ delivered[1].chunk.type = "tool-call" /\ delivered[2].chunk.type = "tool-result"
  /\ delivered[1].chunk.toolName = delivered[2].chunk.toolName
  /\ Len(StreamEvents) = 2
  /\ StreamEvents[1].cb = "onToolCall" /\ StreamEvents[2].cb = "onToolResult"

\* C8: on every exit of runMastraAgent the returned text is the in-order
\* concatenation of the deltas emitted through onTextDelta, and the returned
\* toolCalls / toolResults are the ones emitted through the callbacks.
C8_ResultMatchesEmitted ==
  (runner = "agent" /\ Settled) =>
    /\ result.text = Join(SeqMap(TextOf, SelectSeq(events, LAMBDA e : e.cb = "onTextDelta")))
    /\ result.toolCalls = SeqMap(NameOf, SelectSeq(events, LAMBDA e : e.cb = "onToolCall"))
    /\ result.toolResults = SeqMap(NameOf, SelectSeq(events, LAMBDA e : e.cb = "onToolResult"))

\* C9: once the cancellation token of a runMastraLlmCall run is aborted
\* (here: while the stream is already delivering), no demux callback is
\* invoked for a chunk the stream delivers after the abort.
C9_NoCallbackAfterAbort ==
  (runner = "llm" /\ delivered # <<>> /\ ~delivered[1].afterAbort) =>
    StreamEvents = ExpectedEvents("llm", SelectSeq(delivered, LAMBDA d : ~d.afterAbort))

\* C10: when the result of a cancelled runMastraLlmCall run has settled, no
\* abort listener of the run is attached to the caller's signal any more and
\* the streaming flag has been reset exactly once.
C10_CleanupOnce ==
  (runner = "llm" /\ result.status = "resolved" /\ result.aborted) =>
    /\ extListeners = 0
    /\ streamingResets = 1

\* ------------------------------------------------ C11
\* entries of the write history made by run r
AppendsOf(r) == SelectSeq(fileLog, LAMBDA e : e.op = "append" /\ e.by = r)
\* positions in the write history of the messages run r appended
PositionsOf(r) == {i \in 1..Len(fileLog) : fileLog[i].op = "append" /\ fileLog[i].by = r}

\* C11: when concurrent runs append to one session file, every append is
\* made while the appending run holds the session write lock, and the
\* messages one run appended are contiguous in the file.
C11_AppendsUnderLock ==
  /\ \A i \in 1..Len(fileLog) : fileLog[i].op = "append" => fileLog[i].lock = fileLog[i].by
  /\ \A r \in RunIds : \A i, j \in PositionsOf(r) :
       \A k \in i..j : k \in PositionsOf(r)

\* ------------------------------------------------ C12
\* the summary model was called and its call failed, was aborted or timed out
SummaryCallFailed == compaction.pc # "idle" /\ compaction.pc # "summary"
                     /\ compaction.called /\ ~compaction.outcome.ok

\* C12: when the summary model call fails, is aborted or times out, the
\* error leaves mastraCompact, the write lock is never acquired by the
\* compaction, no write occurs and the persisted transcript is what it was.
C12_FailedSummaryLeavesTranscript ==
  SummaryCallFailed =>
    /\ compaction.pc = "failed"
    /\ compaction.error = compaction.outcome.error
    /\ ~compaction.locked /\ writeLock # "compaction"
    /\ fileLog = <<>>
    /\ sessionFile = compaction.messages

C12_Witness ==
  /\ SummaryCallFailed
  /\ compaction.outcome.error = "TimeoutError"
  /\ Len(sessionFile) = MaxHistory
  /\ writeLock = Free

\* ------------------------------------------------ C13
ExecutorFailed == execCall.behaviour.kind \in {"throws", "rejects"}
ExecutorSucceeded == execCall.behaviour.kind = "returns"
ExecuteDone == execCall.phase = "settled"

\* C13 as stated: execute never propagates an executor exception but resolves
\* with "Error: " and the error's message (or the stringified thrown value);
\* when the executor succeeds it is called exactly once and execute never
\* produces an "Error: " string of its own.
C13_ErrorsBecomeStrings ==
  ExecuteDone =>
    /\ execCall.status = "resolved"
    /\ execCall.calls = 1
    /\ ExecutorFailed =>
         execCall.out = Str("Error: " \o errorMessage(execCall.behaviour.value))
    /\ ExecutorSucceeded => ~execCall.warned

\* C13 amended: as above, except that when the executor succeeds execute
\* produces an "Error: " string of its own exactly when serializing the
\* result raises (a block JSON.stringify cannot serialize); otherwise it
\* returns the serialized result.
C13_ErrorsBecomeStringsUnlessUnserializable ==
  ExecuteDone =>
    /\ execCall.status = "resolved"
    /\ execCall.calls = 1
    /\ ExecutorFailed =>
         execCall.out = Str("Error: " \o errorMessage(execCall.behaviour.value))
    /\ ExecutorSucceeded =>
         IF normalizeToolResultThrows(execCall.behaviour.value)
         THEN execCall.warned /\ execCall.out = Str("Error: " \o JsonErrorMessage)
         ELSE ~execCall.warned

C13_Witness ==
  /\ ExecuteDone
  /\ execCall.behaviour = [kind |-> "rejects", value |-> ErrorInstance("boom")]
  /\ execCall.out = Str("Error: boom")

\* ------------------------------------------------ C14
RECURSIVE FirstOccurrences(_)
\* a sequence without its repeated elements, each kept where it first occurs
FirstOccurrences(q) ==
  IF q = <<>> THEN <<>>
  ELSE LET front == FirstOccurrences(SubSeq(q, 1, Len(q) - 1))
       IN IF \E i \in 1..Len(front) : front[i] = q[Len(q)] THEN front
          ELSE Append(front, q[Len(q)])

\* the input tools that have a non-empty string name, and their names
NamedTools == SelectSeq(toolsCall.tools, LAMBDA t : IsString(t.name) /\ t.name.str # "")
ValidNames == FirstOccurrences([i \in 1..Len(NamedTools) |-> NamedTools[i].name.str])
AdaptToolsReturned == toolsCall.phase = "returned"

\* C14 as stated: the keys of the returned record are exactly the names of
\* the input tools that have a non-empty string name, in order of first
\* occurrence; every entry's id equals its key.
C14_KeysAreNamesInOrder ==
  AdaptToolsReturned =>
    /\ ObjectKeys(toolsCall.record) = ValidNames
    /\ \A i \in 1..Len(toolsCall.record) :
         toolsCall.record[i].value.id = toolsCall.record[i].key

\* C14 amended: the keys are exactly those names and every entry's id equals
\* its key; names that are canonical array indices are listed first in
\* ascending numeric order, the other names follow in order of first occurrence.
C14_KeysAreNamesIndicesFirst ==
  AdaptToolsReturned =>
    LET keys == ObjectKeys(toolsCall.record)
        indexKeys == SelectSeq(keys, LAMBDA k : k \in ArrayIndexNames)
    IN /\ {keys[i] : i \in 1..Len(keys)} = {ValidNames[i] : i \in 1..Len(ValidNames)}
       /\ Len(keys) = Len(ValidNames)
       /\ \A i \in 1..Len(toolsCall.record) :
            toolsCall.record[i].value.id = toolsCall.record[i].key
       /\ keys = indexKeys \o SelectSeq(ValidNames, LAMBDA k : k \notin ArrayIndexNames)
       /\ \A i, j \in 1..Len(indexKeys) :
            i < j => IndexValue(indexKeys[i]) < IndexValue(indexKeys[j])

C14_Witness ==
  /\ AdaptToolsReturned
  /\ Len(toolsCall.tools) = MaxTools
  /\ ObjectKeys(toolsCall.record) = <<"b", "a">>
  /\ \E i \in 1..Len(toolsCall.tools) : ~IsString(toolsCall.tools[i].name)

\* ------------------------------------------------ C15
\* C15: the output of every adapted tool's execute is no larger than the
\* configured ceiling.
C15_OutputWithinCeiling ==
  (ExecuteDone /\ IsString(execCall.out)) => Len(execCall.out.str) <= ToolResultCeiling

\* ------------------------------------------------ C16
\* the executor resolved with a result that normalizeToolResult returns from
Serializable == ExecuteDone /\ ExecutorSucceeded
                /\ ~normalizeToolResultThrows(execCall.behaviour.value)
\* a content-block array holding only text blocks with non-empty text
IsTextBlockArray(v) ==
  IsArray(v) /\ \A i \in 1..Len(v.arr) :
    /\ ~IsString(v.arr[i])
    /\ Get(v.arr[i], "type") = "text" /\ HasString(v.arr[i], "text") /\ v.arr[i].text # ""

Translatable(messages) ==
  SelectSeq(messages, LAMBDA m : IsPlainObject(m)
                                 /\ Get(m, "role") \in {"user", "assistant", "tool"})
Translated == adapter.phase \in {"translated", "back"}

\* C17: toCoreMessages returns exactly one engine message for each input
\* message whose role is user, assistant or tool, in the same order and with
\* the same role; system messages, null or undefined entries and entries
\* with any other role produce nothing; the output is never longer than the
\* input.
C17_OnePerTranslatableMessage ==
  Translated =>
    LET kept == Translatable(adapter.input)
    IN /\ Len(adapter.out) = Len(kept)
       /\ \A i \in 1..Len(kept) : adapter.out[i].role = kept[i].role
       /\ Len(adapter.out) <= Len(adapter.input)

C17_Witness ==
  /\ Translated
  /\ adapter.input = <<[role |-> "system", content |-> Str("You are helpful")],
                       [role |-> "user", content |-> Str("Hello")]>>
  /\ adapter.out = <<[role |-> "user", content |-> Str("Hello")]>>

\* ------------------------------------------------ C18
\* content the round trip is claimed for: a plain string, or parts that are
\* text, image, tool-call or tool-result parts (no reasoning parts)
RoundTripContent(m) ==
  \/ IsString(ContentOf(m))
  \/ /\ IsArray(ContentOf(m))
     /\ \A i \in 1..Len(ContentOf(m).arr) :
          ContentOf(m).arr[i].type \in {"text", "image", "toolCall", "tool_use", "toolResult"}

\* C18: for a user, assistant or tool message m without reasoning parts,
\* fromCoreMessage(toCoreMessages([m])[0]) = m.
C18_RoundTrip ==
  (/\ adapter.phase = "back"
   /\ Len(adapter.input) = 1
   /\ Translatable(adapter.input) = adapter.input
   /\ RoundTripContent(adapter.input[1]))
    => adapter.back = adapter.input

\* ------------------------------------------------ C19
\* C19: every tool-call part toCoreMessages produced has a defined
\* toolCallId, which is the block's own id when it has one (toolCallId, else
\* id) and a generated id otherwise; the generated ids are pairwise distinct
\* across all calls.
C19_ToolCallIdsDefinedAndDistinct ==
  /\ \A k \in 1..Len(issued) :
       /\ issued[k].id \notin {Undefined, Null}
       /\ issued[k].internal \notin {Undefined, Null} => issued[k].id = issued[k].internal
  /\ \A j, k \in 1..Len(issued) :
       (j # k /\ issued[j].internal \in {Undefined, Null}
              /\ issued[k].internal \in {Undefined, Null})
         => issued[j].id # issued[k].id

C19_Witness ==
  /\ adapter.calls = MaxCalls
  /\ \E j, k \in 1..Len(issued) :
       /\ j < k
       /\ issued[j].internal = Undefined /\ issued[k].internal = Undefined
       /\ issued[j].id = "mastra-1700000000000-1"
       /\ issued[k].id = "mastra-1700000000001-5"
  /\ \E k \in 1..Len(issued) : issued[k].internal = "c1" /\ issued[k].id = "c1"

\* ------------------------------------------------ C20
\* the id an input tool-call block carries
InternalId(block) == Coalesce(Get(block, "toolCallId"), Get(block, "id"))
\* result part r of tool message t has no toolCallId of its own in the input
NoOwnId(t, r) ==
  ~IsArray(ContentOf(t)) \/ Get(ContentOf(t).arr[r], "toolCallId") \in {Undefined, Null}

\* C20: when a tool message names its call by a toolCallId, on the message
\* or on its result part, equal to the id of a tool-call part of the
\* assistant message right before it, the tool-result part in the output
\* carries the toolCallId of that tool-call part.
C20_PairingPreserved ==
  (Translated /\ Translatable(adapter.input) = adapter.input) =>
    \A i \in 1..(Len(adapter.input) - 1) :
      LET a == adapter.input[i]
          t == adapter.input[i + 1]
          blocks == ToolCallBlocks(<<a>>)
          calls == ToolCallParts(<<adapter.out[i]>>)
          results == ContentArray(adapter.out[i + 1])
      IN (a.role = "assistant" /\ t.role = "tool") =>
           \A c \in 1..Len(blocks) :
             InternalId(blocks[c]) \notin {Undefined, Null} =>
               /\ Get(t, "toolCallId") = InternalId(blocks[c]) =>
                    \A r \in 1..Len(results) :
                      NoOwnId(t, r) => results[r].toolCallId = calls[c].toolCallId
               /\ \A r \in 1..Len(ContentArray(t)) :
                    Get(ContentArray(t)[r], "toolCallId") = InternalId(blocks[c]) =>
                      results[r].toolCallId = calls[c].toolCallId

\* ------------------------------------------------ C21
\* a schema object the translator has no case for
UnsupportedNode(s) ==
  /\ ~notASchemaObject(s)
  /\ DOMAIN s \cap {"anyOf", "oneOf", "enum", "const"} = {}
  /\ "type" \in DOMAIN s => s.type \notin {"object", "array", "string", "number", "integer",
                                           "boolean", "null"}

TypeboxToZodDone == schemaCall.phase \in {"raised", "returned", "parsed"}

\* C21: typeboxToZod returns a schema for every input and never raises;
\* null, undefined, a non-object and an unknown or unsupported node give the
\* schema that accepts anything.
C21_AlwaysUsableSchema ==
  TypeboxToZodDone =>
    /\ ~Throws(schemaCall.zod)
    /\ (notASchemaObject(schemaCall.schema) \/ UnsupportedNode(schemaCall.schema))
         => schemaCall.zod = ZUnknown

\* ------------------------------------------------ C22
SupportedTypes == {"object", "array", "string", "number", "integer", "boolean", "null"}

RECURSIVE Listed(_)
\* s is an object, array, string, number, integer, boolean, null, enum, const
\* or union schema, and so are the schemas inside it
Listed(s) ==
  /\ ~notASchemaObject(s)
  /\ IF "anyOf" \in DOMAIN s
     THEN s.anyOf # <<>> /\ \A i \in 1..Len(s.anyOf) : Listed(s.anyOf[i])
     ELSE IF "oneOf" \in DOMAIN s
     THEN s.oneOf # <<>> /\ \A i \in 1..Len(s.oneOf) : Listed(s.oneOf[i])
     ELSE IF "enum" \in DOMAIN s THEN s.enum # <<>>
     ELSE IF "const" \in DOMAIN s THEN TRUE
     ELSE /\ "type" \in DOMAIN s
          /\ s.type \in SupportedTypes
          /\ "properties" \in DOMAIN s => \A e \in s.properties : Listed(e.schema)
          /\ "items" \in DOMAIN s => Listed(s.items)

\* v has the JSON type named
HasType(v, type) ==
  IF type = "object" THEN IsObjectValue(v)
  ELSE IF type = "array" THEN IsArray(v)
  ELSE IF type = "string" THEN IsString(v)
  ELSE IF type = "number" THEN IsNumber(v)
  ELSE IF type = "integer" THEN IsInteger(v)
  ELSE IF type = "boolean" THEN IsBoolean(v)
  ELSE IF type = "null" THEN IsNull(v)
  ELSE FALSE

RECURSIVE Check(_, _)
\* the reference validator of an abstract schema: every keyword present has
\* to hold, a keyword about another type of value holding vacuously
Check(s, v) ==
  /\ "type" \in DOMAIN s => HasType(v, s.type)
  /\ "anyOf" \in DOMAIN s => \E i \in 1..Len(s.anyOf) : Check(s.anyOf[i], v)
  /\ "oneOf" \in DOMAIN s =>
       Cardinality({i \in 1..Len(s.oneOf) : Check(s.oneOf[i], v)}) = 1
  /\ "enum" \in DOMAIN s => \E i \in 1..Len(s.enum) : s.enum[i] = v
  /\ "const" \in DOMAIN s => s.const = v
  /\ IsObjectValue(v) =>
       /\ "required" \in DOMAIN s => \A name \in s.required : HasKey(v, name)
       /\ "properties" \in DOMAIN s =>
            \A e \in s.properties : HasKey(v, e.key) => Check(e.schema, Prop(v, e.key))
  /\ (IsArray(v) /\ "items" \in DOMAIN s) => \A i \in 1..Len(v.arr) : Check(s.items, v.arr[i])
  /\ IsString(v) =>
       /\ "minLength" \in DOMAIN s => Len(v.str) >= s.minLength
       /\ "maxLength" \in DOMAIN s => Len(v.str) <= s.maxLength
       /\ "pattern" \in DOMAIN s => RegExpTest(s.pattern, v.str)
  /\ IsNumber(v) =>
       /\ "minimum" \in DOMAIN s => Twice(v) >= 2 * s.minimum
       /\ "maximum" \in DOMAIN s => Twice(v) <= 2 * s.maximum

Parsed == schemaCall.phase = "parsed"

\* C22: for a schema of the listed kinds, a value the translated schema
\* accepts is a value the schema's reference validator accepts.
C22_UnderApproximates ==
  (Parsed /\ Listed(schemaCall.schema) /\ schemaCall.success)
    => Check(schemaCall.schema, schemaCall.value)

\* ------------------------------------------------ C23
RECURSIVE OmitsRequired(_, _)
\* object v, or an object inside it, lacks a name its object schema requires
OmitsRequired(s, v) ==
  /\ "type" \in DOMAIN s
  /\ \/ /\ s.type = "object" /\ IsObjectValue(v)
        /\ \/ "required" \in DOMAIN s /\ \E name \in s.required : ~HasKey(v, name)
           \/ /\ "properties" \in DOMAIN s
              /\ \E e \in s.properties : HasKey(v, e.key) /\ OmitsRequired(e.schema, Prop(v, e.key))
     \/ /\ s.type = "array" /\ IsArray(v) /\ "items" \in DOMAIN s
        /\ \E i \in 1..Len(v.arr) : OmitsRequired(s.items, v.arr[i])

\* C23: the translation of an object schema accepts an object that supplies
\* every required property with a valid value, whether or not it supplies
\* the optional ones, and rejects every object that omits a name listed in
\* required, at every nesting level.
C23_RequiredIffListed ==
  (Parsed /\ Listed(schemaCall.schema) /\ "type" \in DOMAIN schemaCall.schema
   /\ schemaCall.schema.type = "object" /\ IsObjectValue(schemaCall.value)) =>
    /\ Check(schemaCall.schema, schemaCall.value) => schemaCall.success
    /\ OmitsRequired(schemaCall.schema, schemaCall.value) => ~schemaCall.success

\* ------------------------------------------------ C24
IncompatibleApis == {"anthropic-messages", "google-generative-ai", "bedrock-converse-stream"}
\* the api families that have a default base URL of their own
GenericApis == {"openai-completions", "openai-responses", "openai-codex-responses", "ollama",
                "github-copilot"}
ModelConfigResolved ==
  /\ configCall.phase = "settled"
  /\ configCall.call \in {"toMastraModelConfig", "toMastraModelConfigCompatible"}
  /\ "rejected" \notin DOMAIN configCall.out

\* C24: a resolved model config is a native-transport handle when modelApi
\* is anthropic-messages, google-generative-ai or bedrock-converse-stream,
\* whatever the provider name, credentials, headers and base URL, and is a
\* generic descriptor for a generic-compatible family, carrying the family's
\* default base URL when the caller passed none.
C24_RoutesByModelApi ==
  ModelConfigResolved =>
    /\ configCall.params.modelApi \in IncompatibleApis => "sdk" \in DOMAIN configCall.out
    /\ configCall.params.modelApi \in GenericApis =>
         /\ "id" \in DOMAIN configCall.out
         /\ configCall.params.baseUrl = Undefined
              => configCall.out.url = resolveDefaultBaseUrl(configCall.params.modelApi)

\* ------------------------------------------------ C25
ProviderOptionsReturned ==
  configCall.phase = "settled" /\ configCall.call = "toMastraProviderOptions"

\* the provider family of the options returned, none when undefined came back
FamilyOf(out) == DOMAIN out \cap {"anthropic", "openai", "google"}

\* C25: toMastraProviderOptions returns undefined for no think level and for
\* "off"; for any other level it returns the options of one family only,
\* Anthropic (modelApi anthropic-messages or provider anthropic) before
\* OpenAI (modelApi openai-completions or openai-responses, or provider
\* openai) before Google (modelApi google-generative-ai or a provider name
\* containing google), with the values of the level (medium: Anthropic 8000,
\* Google 4096; minimal: OpenAI low), and undefined when no family matches.
\* Provider names are compared without regard to case.
C25_ProviderOptionsByFamily ==
  ProviderOptionsReturned =>
    LET level == configCall.params.thinkLevel
        api == configCall.params.modelApi
        name == toLowerCase(configCall.params.provider)
        out == configCall.out
        isAnthropic == api = "anthropic-messages" \/ name = "anthropic"
        isOpenAI == api \in {"openai-completions", "openai-responses"} \/ name = "openai"
        isGoogle == api = "google-generative-ai" \/ includes(name, "google")
    IN IF level \in {Undefined, "off"} THEN out = NoOptions
       ELSE /\ isAnthropic => DOMAIN out = {"anthropic"}
            /\ (~isAnthropic /\ isOpenAI) => DOMAIN out = {"openai"}
            /\ (~isAnthropic /\ ~isOpenAI /\ isGoogle) => DOMAIN out = {"google"}
            /\ (~isAnthropic /\ ~isOpenAI /\ ~isGoogle) => out = NoOptions
            /\ (level = "medium" /\ FamilyOf(out) = {"anthropic"})
                 => out.anthropic = [thinking |-> [type |-> "enabled", budgetTokens |-> 8000]]
            /\ (level = "medium" /\ FamilyOf(out) = {"google"})
                 => out.google = [thinkingConfig |-> [thinkingBudget |-> 4096]]
            /\ (level = "minimal" /\ FamilyOf(out) = {"openai"})
                 => out.openai = [reasoningEffort |-> "low"]

C25_Witness ==
  /\ ProviderOptionsReturned
  /\ configCall.params.thinkLevel = "high"
  /\ configCall.params.provider = "anthropic"
  /\ configCall.params.modelApi = "openai-completions"
  /\ configCall.out = [anthropic |-> [thinking |-> [type |-> "enabled",
                                                   budgetTokens |-> 16000]]]

\* ------------------------------------------------ C27
LlmResolved == runner = "llm" /\ result.status = "resolved"

\* C27: no result of runMastraLlmCall is both aborted and errored: aborted
\* true and a non-null promptError never come together.
C27_AbortedXorErrored ==
  LlmResolved => ~(result.aborted /\ result.error # Null)

\* ------------------------------------------------ C28
\* C28: in every result of runMastraLlmCall and of runMastraAgent, timedOut
\* true comes with aborted true.
C28_TimedOutImpliesAborted ==
  result.status = "resolved" => (result.timedOut => result.aborted)

C28_Witness ==
  /\ runner = "agent" /\ result.status = "resolved"
  /\ result.timedOut /\ result.aborted
  /\ ext.reason = "TimeoutError"

\* ------------------------------------------------ C29
AgentReturned == runner = "agent" /\ pc = "done"
\* the run returned from the guard on a signal already aborted: the result
\* says aborted although the listener never ran
ReturnedAtEntry == AgentReturned /\ result.aborted /\ ~aborted /\ engineMessages = <<>>
\* the two messages of the turn, as the run submits them
TurnMessages(text) ==
  <<[role |-> "user", content |-> Prompt], [role |-> "assistant", content |-> text]>>
\* what the transcript holds once the messages of msgs that could be
\* written have been appended, in order
Persisted(msgs) ==
  {HistoryMessages \o SelectSeq(msgs, LAMBDA m : m.role \in ok) :
     ok \in SUBSET {"user", "assistant"}}

\* C29: the transcript is untouched until the stream loop of runMastraAgent
\* has ended without an exception; a run that returned at entry on an
\* aborted signal, and a run whose result carries an error, leave it
\* unchanged; any other run has submitted, once, the user message followed
\* by one assistant message holding the text accumulated, so the transcript
\* holds its history followed by those of the two that could be written.
C29_AppendOnceAfterLoop ==
  /\ (runner = "agent" /\ pc # "done") => sessionFile = HistoryMessages
  /\ AgentReturned =>
       IF ReturnedAtEntry \/ result.error # Null
       THEN sessionFile = HistoryMessages
       ELSE sessionFile \in Persisted(TurnMessages(finalText)) /\ result.text = finalText

C29_Witness ==
  /\ AgentReturned /\ result.aborted /\ aborted
  /\ finalText # <<>>
  /\ sessionFile = HistoryMessages \o TurnMessages(finalText)

\* ------------------------------------------------ C30
\* C30: once runMastraAgent has returned, the transcript has gained both
\* messages of the turn or neither, and a run that did not persist its turn
\* does not return a result without error.
C30_TurnPersistedWhole ==
  AgentReturned =>
    /\ sessionFile \in {HistoryMessages, HistoryMessages \o TurnMessages(finalText)}
    /\ (~ReturnedAtEntry /\ result.error = Null)
         => sessionFile = HistoryMessages \o TurnMessages(finalText)

\* ------------------------------------------------ C26
\* C26: a runMastraLlmCall run leaves the array passed as params.messages
\* as it was: once the result has settled it holds the same messages with
\* the same content as at the call, every tool result included.
C26_MessagesUntouched ==
  llmCall.phase = "settled" => llmCall.messages = llmCall.before
====
